---- MODULE Spec2Model ----
(***************************************************************************)
(* Heads-up postflop poker solver: hand evaluator, betting abstraction,   *)
(* game-tree builder and the solver hosts (CLI Train loops, WASM loop).   *)
(*                                                                         *)
(* Money.  The program keeps pots, stacks and bet amounts as float64 big  *)
(* blinds.  Here an amount is an integer number of units, UnitsPerBB      *)
(* units to the big blind.  Every input amount is a multiple of 0.01 bb   *)
(* (8 units) and every bet fraction a multiple of 1/4, so that pot * f    *)
(* and pot / 2 are exact; on the amounts used here float64 takes the same *)
(* branches and prints the same "%.1f" keys.                               *)
(***************************************************************************)
EXTENDS Integers, Sequences, FiniteSets, TLC

VARIABLES
    input,      \* the arguments of the last tree construction, or NoInput
    result,     \* what that construction returned: status, root
    host        \* the WASM host: cancelSolve channel, the solve in progress

vars == <<input, result, host>>

-----------------------------------------------------------------------------
(* pkg/cards: ranks, suits, cards *)

Two == 0
Three == 1
Four == 2
Five == 3
Six == 4
Seven == 5
Eight == 6
Nine == 7
Ten == 8
Jack == 9
Queen == 10
King == 11
Ace == 12

Spades == 0
Hearts == 1
Diamonds == 2
Clubs == 3

NewCard(rank, suit) == [Rank |-> rank, Suit |-> suit]

(* HandRank categories *)
HighCard == 0
OnePair == 1
TwoPair == 2
ThreeOfAKind == 3
Straight == 4
Flush == 5
FullHouse == 6
FourOfAKind == 7
StraightFlush == 8

Sign(x) == IF x < 0 THEN -1 ELSE IF x > 0 THEN 1 ELSE 0

(* HandValue.Compare: category first, then the five tiebreakers in order *)
RECURSIVE CompareValues(_, _, _)
CompareValues(a, b, i) ==
    IF i > 5 THEN 0
    ELSE IF a[i] # b[i] THEN (IF a[i] < b[i] THEN -1 ELSE 1)
    ELSE CompareValues(a, b, i + 1)

CompareKickersFirst(h, other) ==
    IF h.Values # other.Values
    THEN CompareValues(h.Values, other.Values, 1)
    ELSE Sign(h.Rank - other.Rank)

Compare(h, other) ==
    IF h.Rank # other.Rank
    THEN (IF h.Rank < other.Rank THEN -1 ELSE 1)
    ELSE CompareValues(h.Values, other.Values, 1)

(* rankCounts / suitCounts of evaluate5Cards *)
RankCounts(cs) == [r \in Two..Ace |-> Cardinality({i \in DOMAIN cs : cs[i].Rank = r})]
SuitCounts(cs) == [s \in Spades..Clubs |-> Cardinality({i \in DOMAIN cs : cs[i].Suit = s})]

(* checkStraight: A-high down to 6-high windows, first match from the top, *)
(* then the wheel A-2-3-4-5 whose high card is Five.                       *)
WindowFull(rankCounts, high) == \A i \in 0..4 : rankCounts[high - i] > 0

RECURSIVE StraightFrom(_, _)
StraightFrom(rankCounts, h) ==
    IF h < Six
    THEN IF rankCounts[Ace] > 0 /\ rankCounts[Two] > 0 /\ rankCounts[Three] > 0
            /\ rankCounts[Four] > 0 /\ rankCounts[Five] > 0
         THEN [ok |-> TRUE, high |-> Five]
         ELSE [ok |-> FALSE, high |-> 0]
    ELSE IF WindowFull(rankCounts, h) THEN [ok |-> TRUE, high |-> h]
    ELSE StraightFrom(rankCounts, h - 1)

checkStraightAceAlwaysHigh(rankCounts) ==
    LET st == StraightFrom(rankCounts, Ace)
    IN  IF st.ok /\ rankCounts[Ace] > 0 THEN [ok |-> TRUE, high |-> Ace] ELSE st

checkStraight(rankCounts) == StraightFrom(rankCounts, Ace)

(* getRankGroups: the ranks present, sorted by count descending, then rank *)
(* descending.                                                             *)
GroupBefore(rankCounts, r1, r2) ==
    IF rankCounts[r1] # rankCounts[r2] THEN rankCounts[r1] > rankCounts[r2] ELSE r1 > r2

RECURSIVE SortGroups(_, _)
SortGroups(rankCounts, ranks) ==
    IF ranks = {} THEN <<>>
    ELSE LET first == CHOOSE r \in ranks :
                         \A q \in ranks \ {r} : GroupBefore(rankCounts, r, q)
         IN  <<[rank |-> first, count |-> rankCounts[first]]>>
             \o SortGroups(rankCounts, ranks \ {first})

getRankGroups(rankCounts) ==
    SortGroups(rankCounts, {r \in Two..Ace : rankCounts[r] > 0})

(* the ranks present, descending (the Flush branch) *)
RECURSIVE RanksDescending(_, _)
RanksDescending(rankCounts, r) ==
    IF r < Two THEN <<>>
    ELSE (IF rankCounts[r] > 0 THEN <<r>> ELSE <<>>) \o RanksDescending(rankCounts, r - 1)

HandValue(rank, v1, v2, v3, v4, v5) == [Rank |-> rank, Values |-> <<v1, v2, v3, v4, v5>>]

evaluate5Cards(cs) ==
    LET rankCounts == RankCounts(cs)
        suitCounts == SuitCounts(cs)
        isFlush == \E s \in Spades..Clubs : suitCounts[s] = 5
        st == checkStraight(rankCounts)
        groups == getRankGroups(rankCounts)
        ranks == RanksDescending(rankCounts, Ace)
    IN  IF isFlush /\ st.ok THEN HandValue(StraightFlush, st.high, 0, 0, 0, 0)
        ELSE IF Len(groups) >= 1 /\ groups[1].count = 4
             THEN HandValue(FourOfAKind, groups[1].rank, groups[2].rank, 0, 0, 0)
        ELSE IF Len(groups) >= 2 /\ groups[1].count = 3 /\ groups[2].count = 2
             THEN HandValue(FullHouse, groups[1].rank, groups[2].rank, 0, 0, 0)
        ELSE IF isFlush
             THEN HandValue(Flush, ranks[1], ranks[2], ranks[3], ranks[4], ranks[5])
        ELSE IF st.ok THEN HandValue(Straight, st.high, 0, 0, 0, 0)
        ELSE IF Len(groups) >= 1 /\ groups[1].count = 3
             THEN HandValue(ThreeOfAKind, groups[1].rank, groups[2].rank, groups[3].rank, 0, 0)
        ELSE IF Len(groups) >= 2 /\ groups[1].count = 2 /\ groups[2].count = 2
             THEN HandValue(TwoPair, groups[1].rank, groups[2].rank, groups[3].rank, 0, 0)
        ELSE IF Len(groups) >= 1 /\ groups[1].count = 2
             THEN HandValue(OnePair, groups[1].rank, groups[2].rank, groups[3].rank,
                            groups[4].rank, 0)
        ELSE HandValue(HighCard, groups[1].rank, groups[2].rank, groups[3].rank,
                       groups[4].rank, groups[5].rank)

(* Evaluate: panics unless given exactly 7 cards; otherwise the best of    *)
(* the 21 five-card subsets, scanned in index order i<j<k<l<m, keeping a   *)
(* candidate only when it compares strictly greater than the best so far.  *)
LexBefore(s, t) ==
    LET d == (s \ t) \cup (t \ s)
    IN  d # {} /\ (CHOOSE x \in d : \A y \in d : x <= y) \in s

RECURSIVE LexOrder(_)
LexOrder(sets) ==
    IF sets = {} THEN <<>>
    ELSE LET first == CHOOSE s \in sets : \A t \in sets \ {s} : LexBefore(s, t)
         IN  <<first>> \o LexOrder(sets \ {first})

FiveOfSeven == LexOrder({s \in SUBSET (1..7) : Cardinality(s) = 5})

SubHand(cs, s) ==
    LET RECURSIVE Pick(_)
        Pick(i) == IF i > 7 THEN <<>>
                   ELSE (IF i \in s THEN <<cs[i]>> ELSE <<>>) \o Pick(i + 1)
    IN  Pick(1)

RECURSIVE BestFrom(_, _, _)
BestFrom(cs, n, best) ==
    IF n > Len(FiveOfSeven) THEN best
    ELSE LET value == evaluate5Cards(SubHand(cs, FiveOfSeven[n]))
         IN  BestFrom(cs, n + 1, IF Compare(value, best) > 0 THEN value ELSE best)

EvaluatePanics(cs) == Len(cs) # 7

Evaluate(cs) == BestFrom(cs, 1, HandValue(HighCard, 0, 0, 0, 0, 0))

-----------------------------------------------------------------------------
(* pkg/notation: actions, combos, positions *)

UnitsPerBB == 800
Cent == UnitsPerBB \div 100       \* 0.01 bb, the literal of GenerateActions
Tenth == UnitsPerBB \div 10       \* 0.1 bb, the precision of "%.1f"

Check == "Check"
Call == "Call"
Bet == "Bet"
Raise == "Raise"
Fold == "Fold"

Action(type, amount) == [Type |-> type, Amount |-> amount]
NilAction == [Type |-> "nil", Amount |-> 0]

BTN == "BTN"
BB == "BB"

Combo(card1, card2) == [Card1 |-> card1, Card2 |-> card2]
ZeroCombo == Combo(NewCard(0, 0), NewCard(0, 0))

(* fmt "%.1f" of a non-negative amount: the nearest tenth of a big blind,  *)
(* a tie (x.x5) going to the even tenth.  The ties that are exact in       *)
(* float64 are x.25 and x.75; the inputs of this model produce no other.   *)
FormatAmount(amount) ==
    LET q == amount \div Tenth
        r == amount % Tenth
    IN  IF 2 * r < Tenth THEN q
        ELSE IF 2 * r > Tenth THEN q + 1
        ELSE IF q % 2 = 0 THEN q ELSE q + 1

NoAmount == 0 - 1

(* Action.String: "x", "c", "f", "b<amount>", "r<amount>" with one decimal; *)
(* a token is the letter and the printed amount in tenths.                  *)
ActionString(a) ==
    IF a.Type = Check THEN <<"x", NoAmount>>
    ELSE IF a.Type = Call THEN <<"c", NoAmount>>
    ELSE IF a.Type = Bet THEN <<"b", FormatAmount(a.Amount)>>
    ELSE IF a.Type = Raise THEN <<"r", FormatAmount(a.Amount)>>
    ELSE IF a.Type = Fold THEN <<"f", NoAmount>>
    ELSE <<"?", NoAmount>>

-----------------------------------------------------------------------------
(* The cards, boards and hole cards the constructions are run on *)

Kh == NewCard(King, Hearts)
Ks == NewCard(King, Spades)
Kd == NewCard(King, Diamonds)
Kc == NewCard(King, Clubs)
Ah == NewCard(Ace, Hearts)
As == NewCard(Ace, Spades)
Ad == NewCard(Ace, Diamonds)
Ac == NewCard(Ace, Clubs)
Qd == NewCard(Queen, Diamonds)
Qh == NewCard(Queen, Hearts)
c9s == NewCard(Nine, Spades)
c4c == NewCard(Four, Clubs)
c7d == NewCard(Seven, Diamonds)
c2s == NewCard(Two, Spades)
c3h == NewCard(Three, Hearts)

RiverBoard == <<Kh, c9s, c4c, c7d, c2s>>
TurnBoard == <<Kh, c9s, c4c, c7d>>
FlopBoard == <<Kh, c9s, c4c>>

Boards == {RiverBoard, TurnBoard, FlopBoard, <<>>,
           <<Kh, c9s, c4c, c7d, c2s, c3h>>, <<Kh, Kh, c4c, c7d, c2s>>}

(* hole cards: AA beats QQ, AK ties AK, and pairs that collide with the    *)
(* board, with each other, or within themselves                            *)
ComboPairs == {<<Combo(Ad, Ac), Combo(Qd, Qh)>>, <<Combo(Qd, Qh), Combo(Ad, Ac)>>,
               <<Combo(Ah, Kd), Combo(As, Kc)>>, <<Combo(Kh, Ac), Combo(Qd, Qh)>>,
               <<Combo(Ad, Ac), Combo(Ad, Ks)>>, <<Combo(Qd, Qh), Combo(Ad, Ad)>>}

Ranges == {<<Combo(Ad, Ac), Combo(Ah, Kd)>>, <<Combo(Qd, Qh), Combo(As, Kc), Combo(Ad, Ks)>>,
           <<Combo(Kh, Ac)>>, <<Combo(Kh, Ks), Combo(Kh, Kd)>>}

(* Evaluate is a pure function of the seven cards: its value on each hand  *)
(* of the inputs is computed once.                                         *)
InputHands ==
    {h \in {<<c.Card1, c.Card2>> \o b :
              c \in {cp[1] : cp \in ComboPairs} \cup {cp[2] : cp \in ComboPairs}
                    \cup UNION {{r[i] : i \in DOMAIN r} : r \in Ranges},
              b \in Boards} : Len(h) = 7}

EvaluatedHands == [h \in InputHands |-> Evaluate(h)] @@ <<>>

EvaluateHand(cs) == IF cs \in InputHands THEN EvaluatedHands[cs] ELSE Evaluate(cs)

-----------------------------------------------------------------------------
(* pkg/tree: the betting abstraction *)

ActionConfig(betSizes, allowCheck, allowCall, allowFold) ==
    [BetSizes |-> betSizes, AllowCheck |-> allowCheck,
     AllowCall |-> allowCall, AllowFold |-> allowFold]

(* bet fractions are counted in quarters of the pot: 2 is 0.5, 6 is 1.5 *)
DefaultRiverConfig == ActionConfig(<<2, 3, 6>>, TRUE, TRUE, TRUE)

GetLastAction(history) ==
    IF Len(history) = 0 THEN NilAction ELSE history[Len(history)]

(* the loop over config.BetSizes: cap at the stack, drop below 0.01 bb *)
(* a faulty variant: a bet larger than the stack is not cut down to it *)
RECURSIVE BetActionsUncapped(_, _, _, _)
BetActionsUncapped(pot, stack, betSizes, i) ==
    IF i > Len(betSizes) THEN <<>>
    ELSE LET betAmount == (pot * betSizes[i]) \div 4
         IN  (IF betAmount < Cent THEN <<>> ELSE <<Action(Bet, betAmount)>>)
             \o BetActionsUncapped(pot, stack, betSizes, i + 1)

RECURSIVE BetActions(_, _, _, _)
BetActions(pot, stack, betSizes, i) ==
    IF i > Len(betSizes) THEN <<>>
    ELSE LET raw == (pot * betSizes[i]) \div 4
             betAmount == IF raw >= stack THEN stack ELSE raw
         IN  (IF betAmount < Cent THEN <<>> ELSE <<Action(Bet, betAmount)>>)
             \o BetActions(pot, stack, betSizes, i + 1)

(* nobody has bet yet: check, the configured bets, and the all-in unless a *)
(* bet within 0.01 bb of the stack is already listed                       *)
OpenActions(pot, stack, config) ==
    LET actions == (IF config.AllowCheck THEN <<Action(Check, 0)>> ELSE <<>>)
                   \o BetActions(pot, stack, config.BetSizes, 1)
        hasAllIn == \E i \in DOMAIN actions :
                       actions[i].Type = Bet /\ actions[i].Amount >= stack - Cent
    IN  IF stack > Cent /\ Len(config.BetSizes) > 0 /\ ~hasAllIn
        THEN actions \o <<Action(Bet, stack)>>
        ELSE actions

FacingBet(lastAction) == lastAction # NilAction /\ lastAction.Type \in {Bet, Raise}

(* a faulty variant: Fold is offered whether or not the config allows it *)
GenerateActionsFoldAlways(pot, stack, lastAction, config) ==
    IF FacingBet(lastAction)
    THEN <<Action(Fold, 0)>> \o (IF config.AllowCall THEN <<Action(Call, 0)>> ELSE <<>>)
    ELSE OpenActions(pot, stack, config)

GenerateActions(pot, stack, lastAction, config) ==
    IF FacingBet(lastAction)
    THEN (IF config.AllowFold THEN <<Action(Fold, 0)>> ELSE <<>>)
         \o (IF config.AllowCall THEN <<Action(Call, 0)>> ELSE <<>>)
    ELSE OpenActions(pot, stack, config)

-----------------------------------------------------------------------------
(* pkg/tree: nodes *)

ActionKey(action) == ActionString(action)

(* a faulty variant: the key leaves the action history out *)
GetInfoSetWithoutHistory(board, history, actingPlayer, holeCards) ==
    <<board, <<>>, actingPlayer, holeCards>>

GetInfoSet(board, history, actingPlayer, holeCards) ==
    <<board, [i \in DOMAIN history |-> ActionString(history[i])], actingPlayer, holeCards>>

NoChildren == <<>>
NoInfoSet == <<>>

Node(infoSet, player, pot, actions, children, isChance, probs, isTerminal, payoff, needsRollout, combos, board, stacks) ==
    [InfoSet |-> infoSet, Player |-> player, Pot |-> pot, Actions |-> actions,
     Children |-> children, IsChance |-> isChance, ChanceProbabilities |-> probs,
     IsTerminal |-> isTerminal, Payoff |-> payoff, NeedsRollout |-> needsRollout,
     PlayerCombos |-> combos, Board |-> board, Stacks |-> stacks]

NewTerminalNode(pot, payoffs, board, stacks) ==
    Node(NoInfoSet, 0 - 1, pot, <<>>, NoChildren, FALSE, NoChildren, TRUE, payoffs,
         FALSE, <<ZeroCombo, ZeroCombo>>, board, stacks)

NewRolloutNode(pot, board, stacks, combos) ==
    Node(NoInfoSet, 0 - 1, pot, <<>>, NoChildren, FALSE, NoChildren, TRUE, <<0, 0>>,
         TRUE, combos, board, stacks)

NewDecisionNode(infoSet, player, pot, actions, children, board, stacks) ==
    Node(infoSet, player, pot, actions, children, FALSE, NoChildren, FALSE, <<0, 0>>,
         FALSE, <<ZeroCombo, ZeroCombo>>, board, stacks)

NewChanceNode(pot, board, stacks, children, probs) ==
    Node(NoInfoSet, 0 - 1, pot, <<>>, children, TRUE, probs, FALSE, <<0, 0>>,
         FALSE, <<ZeroCombo, ZeroCombo>>, board, stacks)

NilNode == NewTerminalNode(0, <<0, 0>>, <<>>, <<0, 0>>)

-----------------------------------------------------------------------------
(* pkg/tree: the builder *)

(* isShowdown: two consecutive checks, or a call right after a bet/raise *)
isShowdown(history) ==
    IF Len(history) < 2 THEN FALSE
    ELSE LET last == history[Len(history)]
             secondLast == history[Len(history) - 1]
         IN  \/ last.Type = Check /\ secondLast.Type = Check
             \/ last.Type = Call /\ secondLast.Type \in {Bet, Raise}

HandOf(combo, board) == <<combo.Card1, combo.Card2>> \o board

(* calculateShowdownPayoffs calls Evaluate on each 2+len(board) card hand *)
ShowdownPanics(board, combos) ==
    EvaluatePanics(HandOf(combos[1], board)) \/ EvaluatePanics(HandOf(combos[2], board))

(* a faulty variant: a tie pays the whole pot to both players *)
calculateShowdownPayoffsTiePaysBoth(board, combos, pot) ==
    LET rank0 == EvaluateHand(HandOf(combos[1], board))
        rank1 == EvaluateHand(HandOf(combos[2], board))
        cmp == Compare(rank0, rank1)
    IN  IF cmp > 0 THEN <<pot, 0>>
        ELSE IF cmp < 0 THEN <<0, pot>>
        ELSE <<pot, pot>>

(* a faulty variant: the pot goes to the player whose hand compares lower *)
calculateShowdownPayoffsLowerWins(board, combos, pot) ==
    LET rank0 == EvaluateHand(HandOf(combos[1], board))
        rank1 == EvaluateHand(HandOf(combos[2], board))
        cmp == Compare(rank0, rank1)
    IN  IF cmp > 0 THEN <<0, pot>>
        ELSE IF cmp < 0 THEN <<pot, 0>>
        ELSE <<pot \div 2, pot \div 2>>

calculateShowdownPayoffs(board, combos, pot) ==
    LET rank0 == EvaluateHand(HandOf(combos[1], board))
        rank1 == EvaluateHand(HandOf(combos[2], board))
        cmp == Compare(rank0, rank1)
    IN  IF cmp > 0 THEN <<pot, 0>>
        ELSE IF cmp < 0 THEN <<0, pot>>
        ELSE <<pot \div 2, pot \div 2>>

(* getCallAmount: the last bet/raise amount of the history, capped at the stack *)
RECURSIVE CallAmountFrom(_, _, _)
CallAmountFrom(history, i, stack) ==
    IF i < 1 THEN 0
    ELSE IF history[i].Type \in {Bet, Raise}
         THEN (IF history[i].Amount > stack THEN stack ELSE history[i].Amount)
    ELSE CallAmountFrom(history, i - 1, stack)

(* a faulty variant: the whole bet is called, whatever the caller has left *)
getCallAmountUncapped(history, pot, stack) ==
    IF Len(history) = 0 THEN 0 ELSE CallAmountFrom(history, Len(history), history[Len(history)].Amount + stack)

getCallAmount(history, pot, stack) ==
    IF Len(history) = 0 THEN 0 ELSE CallAmountFrom(history, Len(history), stack)

(* validateCards: the first duplicate met scanning board, combo0, combo1 *)
HasDuplicate(cs) == \E i, j \in DOMAIN cs : i < j /\ cs[i] = cs[j]

(* a faulty variant: combo1 is never compared with the cards seen so far *)
validateCardsSkipsCombo1(board, combo0, combo1) ==
    IF HasDuplicate(board) THEN "duplicate card in board"
    ELSE IF HasDuplicate(board \o <<combo0.Card1, combo0.Card2>>) THEN "duplicate card"
    ELSE "nil"

(* a faulty variant: only the board is scanned *)
validateCardsBoardOnly(board, combo0, combo1) ==
    IF HasDuplicate(board) THEN "duplicate card in board" ELSE "nil"

validateCards(board, combo0, combo1) ==
    IF HasDuplicate(board) THEN "duplicate card in board"
    ELSE IF HasDuplicate(board \o <<combo0.Card1, combo0.Card2>>) THEN "duplicate card"
    ELSE IF HasDuplicate(board \o <<combo0.Card1, combo0.Card2, combo1.Card1, combo1.Card2>>)
         THEN "duplicate card"
    ELSE "nil"

Built(node) == [panic |-> FALSE, node |-> node]
Panicked == [panic |-> TRUE, node |-> NilNode]

(* the fold terminal: payoffs[toAct] = pot *)
FoldPayoffs(pot, toAct) == IF toAct = 0 THEN <<pot, 0>> ELSE <<0, pot>>

(* the pot and stacks after an action of the player to act *)
PotAfter(action, history, pot, stacks, toAct) ==
    IF action.Type \in {Bet, Raise} THEN pot + action.Amount
    ELSE IF action.Type = Call THEN pot + getCallAmount(history, pot, stacks[toAct + 1])
    ELSE pot

(* a faulty variant: a call takes the whole bet out of the caller's stack *)
StacksAfterWholeBetCalled(action, history, pot, stacks, toAct) ==
    IF action.Type \in {Bet, Raise}
    THEN [stacks EXCEPT ![toAct + 1] = @ - action.Amount]
    ELSE IF action.Type = Call
    THEN [stacks EXCEPT ![toAct + 1] = @ - getCallAmountUncapped(history, pot, stacks[toAct + 1])]
    ELSE stacks

StacksAfter(action, history, pot, stacks, toAct) ==
    IF action.Type \in {Bet, Raise}
    THEN [stacks EXCEPT ![toAct + 1] = @ - action.Amount]
    ELSE IF action.Type = Call
    THEN [stacks EXCEPT ![toAct + 1] = @ - getCallAmount(history, pot, stacks[toAct + 1])]
    ELSE stacks

NextToAct(action, toAct) ==
    IF action.Type \in {Check, Bet, Raise} THEN 1 - toAct ELSE toAct

(* node.Children[ActionKey(action)] = child, in the order of the actions:  *)
(* a later action with the same key replaces the earlier child.            *)
ChildMap(actions, kids) ==
    [k \in {ActionKey(actions[i]) : i \in DOMAIN actions} |->
        LET last == CHOOSE i \in DOMAIN actions :
                        /\ ActionKey(actions[i]) = k
                        /\ \A j \in DOMAIN actions : ActionKey(actions[j]) = k => j <= i
        IN  kids[last].node]

RECURSIVE buildNode(_, _, _, _, _, _, _)
buildNode(config, board, history, pot, stacks, toAct, combos) ==
    LET lastAction == GetLastAction(history)
    IN  IF lastAction # NilAction /\ lastAction.Type = Fold
        THEN Built(NewTerminalNode(pot, FoldPayoffs(pot, toAct), board, stacks))
        ELSE IF isShowdown(history)
        THEN IF ShowdownPanics(board, combos) THEN Panicked
             ELSE Built(NewTerminalNode(pot, calculateShowdownPayoffs(board, combos, pot),
                                        board, stacks))
        ELSE LET playerCombo == combos[toAct + 1]
                 holeCards == <<playerCombo.Card1, playerCombo.Card2>>
                 playerPos == <<BTN, BB>>[toAct + 1]
                 infoSet == GetInfoSet(board, history, playerPos, holeCards)
                 actions == GenerateActions(pot, stacks[toAct + 1], lastAction, config)
                 kids == [i \in DOMAIN actions |->
                            buildNode(config, board, Append(history, actions[i]),
                                      PotAfter(actions[i], history, pot, stacks, toAct),
                                      StacksAfter(actions[i], history, pot, stacks, toAct),
                                      NextToAct(actions[i], toAct), combos)]
             IN  IF \E i \in DOMAIN actions : kids[i].panic THEN Panicked
                 ELSE Built(NewDecisionNode(infoSet, toAct, pot, actions,
                                            ChildMap(actions, kids), board, stacks))

(* what a construction returns: a root and no error, an error and no root, *)
(* or neither (a panic unwinding through Build)                            *)
Ok(root) == [status |-> "ok", root |-> root, err |-> "nil"]
Error(msg) == [status |-> "error", root |-> NilNode, err |-> msg]
Panic == [status |-> "panic", root |-> NilNode, err |-> "nil"]
NoResult == [status |-> "none", root |-> NilNode, err |-> "nil"]

Build(config, gs, combo0, combo1) ==
    IF Len(gs.Players) # 2 THEN Error("only 2-player games supported")
    ELSE IF Len(gs.Board) # 5 /\ Len(gs.Board) # 4 /\ Len(gs.Board) # 3
    THEN Error("only postflop (3-5 board cards) supported")
    ELSE IF validateCards(gs.Board, combo0, combo1) # "nil"
    THEN Error(validateCards(gs.Board, combo0, combo1))
    ELSE LET stacks == <<gs.Players[1].Stack, gs.Players[2].Stack>>
             built == buildNode(config, gs.Board, gs.ActionHistory, gs.Pot, stacks,
                                gs.ToAct, <<combo0, combo1>>)
         IN  IF built.panic THEN Panic ELSE Ok(built.node)

(* BuildRange: a Chance root with one child per valid (combo0, combo1)     *)
(* pair, each with probability 1/k; an error when k = 0.  A probability   *)
(* is the fraction num/den.                                                *)
ValidPair(board, combo0, combo1) == validateCards(board, combo0, combo1) = "nil"

ValidPairs(board, range0, range1) ==
    {p \in {<<range0[i], range1[j]>> : i \in DOMAIN range0, j \in DOMAIN range1} :
        ValidPair(board, p[1], p[2])}

UniformProb(k) == [num |-> 1, den |-> k]

(* a faulty variant: each matchup is built with the two combos in each    *)
(* other's seat, so a player's keys carry the opponent's hole cards        *)
BuildRangeSwappedSeats(config, gs, range0, range1) ==
    IF Len(gs.Players) # 2 THEN Error("only 2-player games supported")
    ELSE IF Len(gs.Board) # 5 /\ Len(gs.Board) # 4 /\ Len(gs.Board) # 3
    THEN Error("only postflop (3-5 board cards) supported")
    ELSE IF HasDuplicate(gs.Board) THEN Error("duplicate card in board")
    ELSE LET pairs == ValidPairs(gs.Board, range0, range1)
             stacks == <<gs.Players[1].Stack, gs.Players[2].Stack>>
             kids == [p \in pairs |->
                        buildNode(config, gs.Board, gs.ActionHistory, gs.Pot, stacks,
                                  gs.ToAct, <<p[2], p[1]>>)]
         IN  IF pairs = {} THEN Error("no valid combo pairs")
             ELSE IF \E p \in pairs : kids[p].panic THEN Panic
             ELSE Ok(NewChanceNode(gs.Pot, gs.Board, stacks,
                                   [p \in pairs |-> kids[p].node],
                                   [p \in pairs |-> UniformProb(Cardinality(pairs))]))

BuildRange(config, gs, range0, range1) ==
    IF Len(gs.Players) # 2 THEN Error("only 2-player games supported")
    ELSE IF Len(gs.Board) # 5 /\ Len(gs.Board) # 4 /\ Len(gs.Board) # 3
    THEN Error("only postflop (3-5 board cards) supported")
    ELSE IF HasDuplicate(gs.Board) THEN Error("duplicate card in board")
    ELSE LET pairs == ValidPairs(gs.Board, range0, range1)
             stacks == <<gs.Players[1].Stack, gs.Players[2].Stack>>
             kids == [p \in pairs |->
                        buildNode(config, gs.Board, gs.ActionHistory, gs.Pot, stacks,
                                  gs.ToAct, p)]
         IN  IF pairs = {} THEN Error("no valid combo pairs")
             ELSE IF \E p \in pairs : kids[p].panic THEN Panic
             ELSE Ok(NewChanceNode(gs.Pot, gs.Board, stacks,
                                   [p \in pairs |-> kids[p].node],
                                   [p \in pairs |-> UniformProb(Cardinality(pairs))]))

-----------------------------------------------------------------------------
(* The inputs of a construction *)

MaxHistory == 2

Pots == {0 - Cent, 12 * Cent, 10 * UnitsPerBB}

Player(position, stack) == [Position |-> position, Stack |-> stack]

TwoPlayers(stack0, stack1) == <<Player(BTN, stack0), Player(BB, stack1)>>

(* deep stacks, a short stack on either seat, an empty stack, and the      *)
(* player counts 1 and 3                                                   *)
PlayerLists ==
    {TwoPlayers(100 * UnitsPerBB, 100 * UnitsPerBB),
     TwoPlayers(4 * UnitsPerBB, 100 * UnitsPerBB),
     TwoPlayers(100 * UnitsPerBB, 4 * UnitsPerBB),
     TwoPlayers(0, 100 * UnitsPerBB),
     <<Player(BTN, 100 * UnitsPerBB)>>,
     <<Player(BTN, 100 * UnitsPerBB), Player(BB, 100 * UnitsPerBB),
       Player("SB", 100 * UnitsPerBB)>>}

HistoryActions == {Action(Check, 0), Action(Call, 0), Action(Fold, 0),
                   Action(Bet, 5 * UnitsPerBB)}

RECURSIVE SeqsUpTo(_, _)
SeqsUpTo(S, n) ==
    IF n = 0 THEN {<<>>}
    ELSE SeqsUpTo(S, n - 1)
         \cup {Append(h, a) : h \in {g \in SeqsUpTo(S, n - 1) : Len(g) = n - 1}, a \in S}

(* the action histories of at most MaxHistory actions, and a bet of 0 *)
Histories == SeqsUpTo(HistoryActions, MaxHistory) \cup {<<Action(Bet, 0)>>}

Configs == {DefaultRiverConfig,
            ActionConfig(<<3>>, TRUE, TRUE, TRUE),
            ActionConfig(<<2, 4>>, TRUE, FALSE, FALSE)}

GameState(players, pot, board, history, toAct) ==
    [Players |-> players, Pot |-> pot, Board |-> board, ActionHistory |-> history,
     ToAct |-> toAct]

(* Every betting situation is built on the main deals; every deal, the     *)
(* malformed ones included, is built on the base betting situations.       *)
MainBoards == {RiverBoard, TurnBoard}
MainComboPairs == {<<Combo(Ad, Ac), Combo(Qd, Qh)>>, <<Combo(Qd, Qh), Combo(Ad, Ac)>>,
                   <<Combo(Ah, Kd), Combo(As, Kc)>>}
BaseHistories == {<<>>, <<Action(Bet, 5 * UnitsPerBB)>>}

BuildInputs ==
    {[gs |-> GameState(players, pot, board, history, toAct), combos |-> cp, config |-> config] :
        players \in PlayerLists, pot \in Pots, board \in MainBoards, history \in Histories,
        toAct \in {0, 1}, cp \in MainComboPairs, config \in Configs}
    \cup
    {[gs |-> GameState(players, pot, board, history, toAct), combos |-> cp, config |-> config] :
        players \in PlayerLists, pot \in Pots, board \in Boards, history \in BaseHistories,
        toAct \in {0}, cp \in ComboPairs, config \in {DefaultRiverConfig}}

BuildRangeInputs ==
    {[gs |-> GameState(players, pot, board, history, toAct), range0 |-> r0, range1 |-> r1,
      config |-> config] :
        players \in PlayerLists, pot \in {10 * UnitsPerBB}, board \in Boards,
        history \in BaseHistories, toAct \in {0, 1}, r0 \in Ranges, r1 \in Ranges,
        config \in {DefaultRiverConfig}}

ActionConfigs == Configs \cup {ActionConfig(<<4>>, FALSE, TRUE, FALSE),
                             ActionConfig(<<>>, TRUE, FALSE, TRUE)}
LastActions == HistoryActions \cup {NilAction, Action(Raise, 5 * UnitsPerBB)}
ActionStacks == {0, Cent, 4 * UnitsPerBB, 100 * UnitsPerBB}

NoInput == [op |-> "none"]

-----------------------------------------------------------------------------
(* pkg/solver and the browser host: training loops and cancellation.       *)
(* A strategy profile is determined by the tree and the number of Iterate  *)
(* calls that produced it; the model keeps that number.                    *)

maxIterations == 100000

MaxIterate == 3

(* for i := 0; i < iterations; i++ { Iterate(root) }: the Iterate calls made *)
TrainLoop(iterations) == IF iterations > 0 THEN iterations ELSE 0

CFRTrain(iterations) == TrainLoop(iterations)

MCCFRTrain(iterations) ==
    LET capped == IF iterations > maxIterations THEN maxIterations ELSE iterations
        floored == IF capped < 0 THEN 0 ELSE capped
    IN  TrainLoop(floored)

(* Go's integer division truncates toward zero *)
Quot(a, b) == IF a >= 0 THEN a \div b ELSE 0 - ((0 - a) \div b)

ClampIterations(iterations) ==
    IF iterations > maxIterations THEN maxIterations ELSE iterations

ReportInterval(iterations) ==
    IF Quot(iterations, 20) < 100 THEN 100 ELSE Quot(iterations, 20)

NilChan == 0 - 1

WebConfig == ActionConfig(<<3>>, TRUE, TRUE, TRUE)

TrainRequests == {0 - 1, 0, 1, maxIterations - 1, maxIterations, maxIterations + 1,
                  2 * maxIterations}
HostRequests == {0 - 1} \cup (0 .. MaxIterate) \cup {maxIterations + 1}
HostRanges == {<<Combo(Ad, Ac)>>, <<Combo(Qd, Qh)>>, <<Combo(Ad, Ac), Combo(Ah, Kd)>>}
HostBoards == {RiverBoard, TurnBoard}

(* stale records, for the solve under way, whether a cancel token sent     *)
(* before the solve made its channel was still pending at that moment      *)
HostState(pc, op, cancelSolve, isCFR, callback, requested, iterations, i, done, progress, returned) ==
    [pc |-> pc, op |-> op, cancelSolve |-> cancelSolve, isCFR |-> isCFR,
     callback |-> callback, requested |-> requested, iterations |-> iterations,
     i |-> i, done |-> done, progress |-> progress, returned |-> returned,
     stale |-> FALSE]

HostIdle == HostState("idle", "none", NilChan, FALSE, FALSE, 0, 0, 0, 0, 0, 0 - 1)

AtRest == host.pc \in {"idle", "trained", "resolved", "rejected"}
InLoop(h) == h.pc \in {"poll", "iterate", "report", "deadline"}

(* the iterations begun so far: those completed and the one under way *)
Started(h) == h.done + (IF h.pc = "iterate" THEN 1 ELSE 0)

SolveInit ==
    /\ input = NoInput
    /\ result = NoResult
    /\ host = HostIdle

(* cmd: profile = cfr.Train(root, *iterations) *)
TrainCFR ==
    /\ AtRest
    /\ \E n \in TrainRequests :
          host' = HostState("trained", "CFR.Train", host.cancelSolve, TRUE, FALSE, n, n, 0,
                            CFRTrain(n), 0, CFRTrain(n))
    /\ UNCHANGED <<input, result>>

(* cmd: profile = mccfr.Train(root, *iterations) *)
TrainMCCFR ==
    /\ AtRest
    /\ \E n \in TrainRequests :
          host' = HostState("trained", "MCCFR.Train", host.cancelSolve, FALSE, FALSE, n,
                            n, 0, MCCFRTrain(n), 0, MCCFRTrain(n))
    /\ UNCHANGED <<input, result>>

IsRangeVsRange(range0, range1) == Len(range0) > 1 \/ Len(range1) > 1

(* the tree runSolver builds for a parsed position; computed once per input *)
HostBuild(board, range0, range1) ==
    LET gs == GameState(TwoPlayers(100 * UnitsPerBB, 100 * UnitsPerBB),
                        10 * UnitsPerBB, board, <<>>, 0)
    IN  IF IsRangeVsRange(range0, range1) THEN BuildRange(WebConfig, gs, range0, range1)
        ELSE Build(WebConfig, gs, range0[1], range1[1])

HostBuildStatus ==
    [in \in HostBoards \X HostRanges \X HostRanges |->
        HostBuild(in[1], in[2], in[3]).status] @@ <<>>

(* a faulty variant: the channel of the previous solve, with any token    *)
(* still in it, is used again                                              *)
HostSolveKeepsChannel ==
    /\ AtRest
    /\ \E n \in HostRequests, callback \in BOOLEAN, board \in HostBoards,
          range0 \in HostRanges, range1 \in HostRanges :
          LET status == HostBuildStatus[<<board, range0, range1>>]
              isCFR == ~(Len(board) = 3 \/ Len(board) = 4
                         \/ IsRangeVsRange(range0, range1))
              channel == IF host.cancelSolve = NilChan THEN 0 ELSE host.cancelSolve
          IN  host' = IF status # "ok"
                      THEN HostState("rejected", "solve", host.cancelSolve, FALSE, callback,
                                     n, n, 0, 0, 0, 0 - 1)
                      ELSE [HostState("poll", "solve", channel, isCFR, callback, n,
                                      ClampIterations(n), 0, 0, 0, 0 - 1)
                               EXCEPT !.stale = (host.cancelSolve = 1)]
    /\ UNCHANGED <<input, result>>

(* runSolver up to the loop of trainWithProgress: build the tree (an error *)
(* or a panic rejects the promise), make the cancel channel, pick the      *)
(* solver, clamp the request.                                              *)
HostSolve ==
    /\ AtRest
    /\ \E n \in HostRequests, callback \in BOOLEAN, board \in HostBoards,
          range0 \in HostRanges, range1 \in HostRanges :
          LET status == HostBuildStatus[<<board, range0, range1>>]
              isCFR == ~(Len(board) = 3 \/ Len(board) = 4
                         \/ IsRangeVsRange(range0, range1))
          IN  host' = IF status # "ok"
                      THEN HostState("rejected", "solve", host.cancelSolve, FALSE, callback,
                                     n, n, 0, 0, 0, 0 - 1)
                      ELSE [HostState("poll", "solve", 0, isCFR, callback, n,
                                      ClampIterations(n), 0, 0, 0, 0 - 1)
                               EXCEPT !.stale = (host.cancelSolve = 1)]
    /\ UNCHANGED <<input, result>>

(* a faulty variant: the loop never looks at the cancel channel *)
HostPollIgnoresCancel ==
    /\ host.pc = "poll"
    /\ host' = IF host.i < host.iterations
               THEN [host EXCEPT !.pc = "iterate"]
               ELSE [host EXCEPT !.pc = "completed", !.returned = host.done]
    /\ UNCHANGED <<input, result>>

(* the loop condition and the non-blocking receive at the top of the body *)
HostPoll ==
    /\ host.pc = "poll"
    /\ host' = IF host.i < host.iterations
               THEN IF host.cancelSolve = 1
                    THEN [host EXCEPT !.pc = "cancelled", !.cancelSolve = 0,
                                      !.returned = host.done]
                    ELSE [host EXCEPT !.pc = "iterate"]
               ELSE [host EXCEPT !.pc = "completed", !.returned = host.done]
    /\ UNCHANGED <<input, result>>

(* a faulty variant: an iteration gives up half way on a pending cancel    *)
HostIterateAbortsOnCancel ==
    /\ host.pc = "iterate"
    /\ host' = IF host.cancelSolve = 1
               THEN [host EXCEPT !.pc = "cancelled", !.cancelSolve = 0,
                                 !.returned = host.done]
               ELSE [host EXCEPT !.pc = "report", !.done = @ + 1]
    /\ UNCHANGED <<input, result>>

(* cfr.Iterate(root) or mccfr.Iterate(root) *)
HostIterate ==
    /\ host.pc = "iterate"
    /\ host' = [host EXCEPT !.pc = "report", !.done = @ + 1]
    /\ UNCHANGED <<input, result>>

(* the progress callback, every reportInterval iterations and at the last *)
HostReport ==
    /\ host.pc = "report"
    /\ host' = IF /\ host.callback
                  /\ \/ host.i % ReportInterval(host.iterations) = 0
                     \/ host.i = host.iterations - 1
               THEN [host EXCEPT !.pc = "deadline", !.progress = host.i + 1]
               ELSE [host EXCEPT !.pc = "deadline"]
    /\ UNCHANGED <<input, result>>

(* time.Since(start) >= maxSolveDuration returns the profile; otherwise    *)
(* i++.  The model follows a run for MaxIterate iterations: after that     *)
(* many the deadline has passed.                                           *)
HostDeadline ==
    /\ host.pc = "deadline"
    /\ \/ host' = [host EXCEPT !.pc = "timedout", !.returned = host.done]
       \/ /\ host.done < MaxIterate \/ host.i + 1 >= host.iterations
          /\ host' = [host EXCEPT !.pc = "poll", !.i = @ + 1]
    /\ UNCHANGED <<input, result>>

(* runSolver after trainWithProgress: profile.ToJSON and resolve; only the *)
(* channel outlives the call                                               *)
HostResolve ==
    /\ host.pc \in {"cancelled", "timedout", "completed"}
    /\ host' = [HostIdle EXCEPT !.pc = "resolved", !.op = "solve",
                                !.cancelSolve = host.cancelSolve]
    /\ UNCHANGED <<input, result>>

(* cancelWrapper: a non-blocking send on the channel, if there is one *)
Cancel ==
    /\ host.op \in {"none", "solve"}
    /\ host' = IF host.cancelSolve = 0 THEN [host EXCEPT !.cancelSolve = 1] ELSE host
    /\ UNCHANGED <<input, result>>

SolveNext ==
    \/ TrainCFR
    \/ TrainMCCFR
    \/ HostSolve
    \/ HostPoll
    \/ HostIterate
    \/ HostReport
    \/ HostDeadline
    \/ HostResolve
    \/ Cancel

SolveSpec == SolveInit /\ [][SolveNext]_vars

-----------------------------------------------------------------------------
(* Tree construction: one call of GenerateActions, Build or BuildRange *)

TreeInit ==
    /\ input = NoInput
    /\ result = NoResult
    /\ host = HostIdle

DoGenerateActions ==
    /\ input.op = "none"
    /\ \E pot \in Pots, stack \in ActionStacks, lastAction \in LastActions,
          config \in ActionConfigs :
          /\ input' = [op |-> "GenerateActions", pot |-> pot, stack |-> stack,
                       lastAction |-> lastAction, config |-> config]
          /\ result' = [status |-> "actions",
                        actions |-> GenerateActions(pot, stack, lastAction, config)]
    /\ UNCHANGED host

DoBuild ==
    /\ input.op = "none"
    /\ \E in \in BuildInputs :
          /\ input' = [op |-> "Build", config |-> in.config, gs |-> in.gs,
                       combo0 |-> in.combos[1], combo1 |-> in.combos[2]]
          /\ result' = Build(in.config, in.gs, in.combos[1], in.combos[2])
    /\ UNCHANGED host

DoBuildRange ==
    /\ input.op = "none"
    /\ \E in \in BuildRangeInputs :
          /\ input' = [op |-> "BuildRange", config |-> in.config, gs |-> in.gs,
                       range0 |-> in.range0, range1 |-> in.range1]
          /\ result' = BuildRange(in.config, in.gs, in.range0, in.range1)
    /\ UNCHANGED host

TreeNext == DoGenerateActions \/ DoBuild \/ DoBuildRange

TreeSpec == TreeInit /\ [][TreeNext]_vars

-----------------------------------------------------------------------------
(* Properties of the constructed trees *)

RECURSIVE Nodes(_)
Nodes(n) == {n} \cup UNION {Nodes(n.Children[k]) : k \in DOMAIN n.Children}

IsDecision(n) == ~n.IsTerminal /\ ~n.IsChance

BuildReturned == input.op = "Build" /\ result.status = "ok"
TreeReturned == input.op \in {"Build", "BuildRange"} /\ result.status = "ok"

FoldKey == ActionKey(Action(Fold, 0))
CallKey == ActionKey(Action(Call, 0))

(* C1: in every tree the builder returns, every Terminal node (fold or     *)
(* showdown) has payoff[0] + payoff[1] equal to the pot recorded at it.    *)
C1_TerminalPayoffsSumToPot ==
    TreeReturned =>
        \A n \in Nodes(result.root) :
            (n.IsTerminal /\ ~n.NeedsRollout) => n.Payoff[1] + n.Payoff[2] = n.Pot

(* a returned tree with a fold terminal and a split-pot showdown terminal *)
C1_Witness ==
    /\ BuildReturned
    /\ \E d \in Nodes(result.root) :
          /\ IsDecision(d)
          /\ FoldKey \in DOMAIN d.Children
          /\ CallKey \in DOMAIN d.Children
          /\ d.Children[FoldKey].IsTerminal
          /\ d.Children[CallKey].IsTerminal
          /\ d.Children[CallKey].Pot > 0
          /\ d.Children[CallKey].Payoff[1] = d.Children[CallKey].Payoff[2]
          /\ d.Children[FoldKey].Pot > 0

(* C2: a Terminal reached by a Fold awards the whole pot to the player who *)
(* did not fold and nothing to the player who folded; here for the folds   *)
(* generated inside the tree, where the folder is the deciding player.     *)
C2_FoldAwardsPotToOtherPlayer ==
    BuildReturned =>
        \A d \in Nodes(result.root) :
            (IsDecision(d) /\ FoldKey \in DOMAIN d.Children) =>
                LET t == d.Children[FoldKey]
                IN  /\ t.IsTerminal
                    /\ t.Payoff[(1 - d.Player) + 1] = t.Pot
                    /\ t.Payoff[d.Player + 1] = 0

(* C3: every Decision node of a built tree has at least one legal action   *)
(* and exactly one child per action of its list, under that action's key.  *)
C3_DecisionHasOneChildPerAction ==
    BuildReturned =>
        \A d \in Nodes(result.root) :
            IsDecision(d) =>
                /\ Len(d.Actions) >= 1
                /\ Cardinality(DOMAIN d.Children) = Len(d.Actions)
                /\ \A i \in DOMAIN d.Actions : ActionKey(d.Actions[i]) \in DOMAIN d.Children

ActionTypes(actions) == {actions[i].Type : i \in DOMAIN actions}

GeneratedFacingBet == input.op = "GenerateActions" /\ FacingBet(input.lastAction)

(* C4 as stated: facing a Bet or a Raise the legal action set is exactly   *)
(* {Fold, Call}.                                                           *)
C4_FacingBetExactlyFoldCall ==
    GeneratedFacingBet => ActionTypes(result.actions) = {Fold, Call}

(* C4 as amended: facing a Bet or a Raise the list holds Fold iff the      *)
(* config allows Fold and Call iff it allows Call, Fold first, each once,  *)
(* and never Check, Bet or Raise.                                          *)
C4_FacingBetFoldCallAsConfigured ==
    GeneratedFacingBet =>
        LET actions == result.actions
        IN  /\ ActionTypes(actions) \subseteq {Fold, Call}
            /\ (Fold \in ActionTypes(actions)) <=> input.config.AllowFold
            /\ (Call \in ActionTypes(actions)) <=> input.config.AllowCall
            /\ Len(actions) = Cardinality(ActionTypes(actions))
            /\ (Len(actions) = 2 => actions[1].Type = Fold)

(* facing a raise with Fold disabled and Call enabled: the list is [Call] *)
C4_Witness ==
    /\ GeneratedFacingBet
    /\ input.lastAction.Type = Raise
    /\ ~input.config.AllowFold
    /\ input.config.AllowCall
    /\ result.actions = <<Action(Call, 0)>>

WellFormedDeal ==
    /\ Len(input.gs.Players) = 2
    /\ validateCards(input.gs.Board, input.combo0, input.combo1) = "nil"

(* the Terminal children that are not reached by a Fold: the showdowns *)
ShowdownNodes(root) ==
    UNION {{d.Children[k] : k \in {j \in DOMAIN d.Children :
                                      j # FoldKey /\ d.Children[j].IsTerminal}} :
           d \in {n \in Nodes(root) : IsDecision(n)}}

(* C5: Build on a board of 3 or 4 cards succeeds, and every showdown       *)
(* history ends in a Rollout node carrying both combos and the board.      *)
C5_PartialBoardShowdownsAreRollouts ==
    (input.op = "Build" /\ Len(input.gs.Board) \in {3, 4} /\ WellFormedDeal) =>
        /\ result.status = "ok"
        /\ isShowdown(input.gs.ActionHistory) => result.root.NeedsRollout
        /\ \A n \in ShowdownNodes(result.root) :
              /\ n.NeedsRollout
              /\ n.PlayerCombos = <<input.combo0, input.combo1>>
              /\ n.Board = input.gs.Board

CardsOf(board, combo0, combo1) ==
    {board[i] : i \in DOMAIN board}
    \cup {combo0.Card1, combo0.Card2, combo1.Card1, combo1.Card2}

PairwiseDistinct(board, combo0, combo1) ==
    Cardinality(CardsOf(board, combo0, combo1)) = Len(board) + 4

(* the pairs of the two ranges that share no card with the board or with  *)
(* each other                                                              *)
DisjointPairs(board, range0, range1) ==
    {p \in {<<range0[i], range1[j]>> : i \in DOMAIN range0, j \in DOMAIN range1} :
        PairwiseDistinct(board, p[1], p[2])}

RECURSIVE SumOfNumerators(_, _)
SumOfNumerators(probs, keys) ==
    IF keys = {} THEN 0
    ELSE LET k == CHOOSE x \in keys : TRUE
         IN  probs[k].num + SumOfNumerators(probs, keys \ {k})

(* C6: a range build returns a Chance root with one child per valid pair,  *)
(* each of probability 1/k for the k valid pairs: the probabilities are    *)
(* non-negative and sum to 1.                                              *)
C6_ChanceRootUniformOverValidPairs ==
    (input.op = "BuildRange" /\ result.status = "ok") =>
        LET root == result.root
            valid == DisjointPairs(input.gs.Board, input.range0, input.range1)
            k == Cardinality(valid)
        IN  /\ root.IsChance
            /\ k > 0
            /\ DOMAIN root.Children = valid
            /\ DOMAIN root.ChanceProbabilities = valid
            /\ \A p \in valid : root.ChanceProbabilities[p] = [num |-> 1, den |-> k]
            /\ SumOfNumerators(root.ChanceProbabilities, valid) = k

(* a range build that kept some pairs and dropped a pair sharing a card *)
C6_Witness ==
    /\ input.op = "BuildRange"
    /\ result.status = "ok"
    /\ Cardinality(DOMAIN result.root.Children) >= 2
    /\ Cardinality(DOMAIN result.root.Children)
          < Len(input.range0) * Len(input.range1)

BadPlayerCount == Len(input.gs.Players) # 2
BadBoardSize == Len(input.gs.Board) \notin {3, 4, 5}

(* C7: construction returns an error and no tree when the player count is  *)
(* not 2, the board size is outside {3,4,5}, a card is duplicated among    *)
(* the board and the two combos, or a range build has no valid pair.       *)
C7_StructuralErrorsRejected ==
    /\ (input.op = "Build"
        /\ (\/ BadPlayerCount
            \/ BadBoardSize
            \/ ~PairwiseDistinct(input.gs.Board, input.combo0, input.combo1)))
       => (result.status = "error" /\ result.root = NilNode)
    /\ (input.op = "BuildRange"
        /\ (\/ BadPlayerCount
            \/ BadBoardSize
            \/ HasDuplicate(input.gs.Board)
            \/ DisjointPairs(input.gs.Board, input.range0, input.range1) = {}))
       => (result.status = "error" /\ result.root = NilNode)

(* a Build on a river board with two players whose combos share a card *)
C7_Witness ==
    /\ input.op = "Build"
    /\ ~BadPlayerCount
    /\ input.gs.Board = RiverBoard
    /\ input.combo0.Card1 = input.combo1.Card1
    /\ result.status = "error"

BetAmounts(history) ==
    {history[i].Amount : i \in {j \in DOMAIN history : history[j].Type \in {Bet, Raise}}}

(* C8: construction rejects with an error a state with a bet or raise      *)
(* amount <= 0, a negative pot, or a stack <= 0 for the player to act.     *)
C8_ShapeErrorsRejected ==
    (input.op = "Build"
     /\ (\/ input.gs.Pot < 0
         \/ \E a \in BetAmounts(input.gs.ActionHistory) : a <= 0
         \/ (~BadPlayerCount /\ input.gs.Players[input.gs.ToAct + 1].Stack <= 0)))
    => result.status = "error"

-----------------------------------------------------------------------------
(* Properties of the solves *)

(* C9: whatever count is requested, a solve (CFR.Train, MCCFR.Train, the   *)
(* host loop) executes at most 100,000 iterations, and a request above the *)
(* maximum is clamped, not rejected.                                       *)
C9_AtMostMaxIterations ==
    /\ host.done <= maxIterations
    /\ (host.pc = "trained" /\ host.requested > maxIterations) => host.done = maxIterations

(* C10: a cancel request made during the training loop leaves a token in   *)
(* the channel; while a token is pending no further iteration is started,  *)
(* the token stays until the loop ends, and the profile returned is the    *)
(* one of the iterations completed so far.                                 *)
C10_CancelStopsAtIterationBoundary ==
    [][/\ (InLoop(host) /\ Cancel) => host'.cancelSolve = 1
       /\ (InLoop(host) /\ host.cancelSolve = 1) =>
             /\ Started(host') = Started(host)
             /\ InLoop(host') => host'.cancelSolve = 1
             /\ ~InLoop(host') => host'.returned = host.done]_vars

(* the loop returned at its poll with iterations done and iterations left *)
C10_Witness ==
    /\ host.pc = "cancelled"
    /\ host.done >= 1
    /\ host.done < host.iterations
    /\ host.returned = host.done

-----------------------------------------------------------------------------
(* pkg/solver: strategies.  A regret, a reach probability or a strategy    *)
(* weight is a float64 in the program; here it is the exact fraction       *)
(* num/den in lowest terms with den > 0 (finite values only).              *)

RECURSIVE GCD(_, _)
GCD(a, b) == IF b = 0 THEN a ELSE GCD(b, a % b)

Abs(n) == IF n < 0 THEN 0 - n ELSE n

Frac(n, d) ==
    LET g == GCD(Abs(n), Abs(d))
        s == IF d < 0 THEN 0 - 1 ELSE 1
    IN  [num |-> (s * n) \div g, den |-> (s * d) \div g]

Zero == Frac(0, 1)
One == Frac(1, 1)

(* the sum and the order over the least common denominator, the product   *)
(* with the common factors cancelled first: the numbers stay small         *)
FAdd(x, y) ==
    LET g == GCD(x.den, y.den)
    IN  Frac(x.num * (y.den \div g) + y.num * (x.den \div g), (x.den \div g) * y.den)

FNeg(x) == [num |-> 0 - x.num, den |-> x.den]

FSub(x, y) == FAdd(x, FNeg(y))

FMul(x, y) ==
    LET g1 == GCD(Abs(x.num), y.den)
        g2 == GCD(Abs(y.num), x.den)
    IN  Frac((x.num \div g1) * (y.num \div g2), (x.den \div g2) * (y.den \div g1))

FDiv(x, y) == FMul(x, IF y.num < 0 THEN [num |-> 0 - y.den, den |-> 0 - y.num]
                      ELSE [num |-> y.den, den |-> y.num])

FLess(x, y) == FSub(x, y).num < 0

FLeq(x, y) == FSub(x, y).num <= 0

RECURSIVE FSum(_)
FSum(xs) == IF xs = <<>> THEN Zero ELSE FAdd(FSum(SubSeq(xs, 1, Len(xs) - 1)), xs[Len(xs)])

Uniform(n) == [i \in 1 .. n |-> Frac(1, n)]

(* Strategy: the actions are those of the node; the two sums have one      *)
(* entry per action.                                                       *)
Strategy(infoSet, actions, regretSum, strategySum) ==
    [InfoSet |-> infoSet, Actions |-> actions, RegretSum |-> regretSum,
     StrategySum |-> strategySum]

NewStrategy(infoSet, actions) ==
    Strategy(infoSet, actions, [i \in DOMAIN actions |-> Zero],
             [i \in DOMAIN actions |-> Zero])

(* a faulty variant: the regrets themselves are normalised, not their      *)
(* positive parts                                                          *)
GetStrategyKeepsNegatives(s) ==
    LET n == Len(s.Actions)
        normalizingSum == FSum(s.RegretSum)
    IN  IF FLess(Zero, normalizingSum)
        THEN [i \in 1 .. n |-> FDiv(s.RegretSum[i], normalizingSum)]
        ELSE Uniform(n)

(* regret matching *)
GetStrategy(s) ==
    LET n == Len(s.Actions)
        strategy == [i \in 1 .. n |->
                        IF FLess(Zero, s.RegretSum[i]) THEN s.RegretSum[i] ELSE Zero]
        normalizingSum == FSum(strategy)
    IN  IF FLess(Zero, normalizingSum)
        THEN [i \in 1 .. n |-> FDiv(strategy[i], normalizingSum)]
        ELSE Uniform(n)

(* a faulty variant: the sums are reported as they are, not normalised     *)
GetAverageStrategyRaw(s) ==
    [i \in 1 .. Len(s.Actions) |-> s.StrategySum[i]]

GetAverageStrategy(s) ==
    LET n == Len(s.Actions)
        normalizingSum == FSum(s.StrategySum)
    IN  IF FLess(Zero, normalizingSum)
        THEN [i \in 1 .. n |-> FDiv(s.StrategySum[i], normalizingSum)]
        ELSE Uniform(n)

(* a faulty variant: the regrets are appended to the sums, not added *)
UpdateRegretsAppends(s, regrets) ==
    [s EXCEPT !.RegretSum = s.RegretSum \o regrets]

UpdateRegrets(s, regrets) ==
    [s EXCEPT !.RegretSum = [i \in DOMAIN s.Actions |-> FAdd(s.RegretSum[i], regrets[i])]]

UpdateStrategy(s, strategy, reachProb) ==
    [s EXCEPT !.StrategySum =
        [i \in DOMAIN s.Actions |-> FAdd(s.StrategySum[i], FMul(reachProb, strategy[i]))]]

(* StrategyProfile: the map from info-set key to Strategy *)
NewStrategyProfile == <<>>

GetOrCreate(profile, infoSet, actions) ==
    IF infoSet \in DOMAIN profile THEN profile
    ELSE profile @@ (infoSet :> NewStrategy(infoSet, actions))

-----------------------------------------------------------------------------
(* pkg/solver: the random source.  rand.New(rand.NewSource(seed)) yields a *)
(* stream of values that is a function of the seed alone; the k-th value   *)
(* of the stream is DrawOf(seed, k), one of Grain equally spaced values.   *)
(* Float64() is that value over Grain, Intn(n) scales it to 0 .. n-1; each *)
(* call consumes one value.                                                *)

Grain == 12

DrawOf(seed, k) == (5 * seed + 7 * k + seed * k) % Grain

Float64(seed, k) == Frac(DrawOf(seed, k), Grain)

Intn(seed, k, n) == (DrawOf(seed, k) * n) \div Grain

(* what a traversal hands back: the value, the profile as updated, the     *)
(* number of values drawn from the source so far, and whether it panicked  *)
Visit(value, profile, drawn, panic) ==
    [value |-> value, profile |-> profile, drawn |-> drawn, panic |-> panic]

(* a payoff in big blinds *)
Payoffs(p) == <<Frac(p[1], UnitsPerBB), Frac(p[2], UnitsPerBB)>>

(* the deck in the order rollout lists it: ranks from the ace down, suits  *)
(* from spades to clubs, without the cards in use                          *)
DeckOrder == [i \in 1 .. 52 |-> NewCard(Ace - ((i - 1) \div 4), (i - 1) % 4)]

possibleCards(used) == SelectSeq(DeckOrder, LAMBDA c : c \notin used)

(* usedCards: the cards of the board and of the two combos *)
usedCardsOf(node) ==
    {node.Board[i] : i \in DOMAIN node.Board}
    \cup {node.PlayerCombos[1].Card1, node.PlayerCombos[1].Card2,
          node.PlayerCombos[2].Card1, node.PlayerCombos[2].Card2}

(* a faulty variant: the river is drawn from the cards the turn was drawn *)
(* from, the turn card among them                                          *)
finalBoardWithReplacement(node, possible, seed, drawn) ==
    LET turnCard == possible[Intn(seed, drawn + 1, Len(possible)) + 1]
        riverCard == possible[Intn(seed, drawn + 2, Len(possible)) + 1]
    IN  IF Len(node.Board) = 3 THEN node.Board \o <<turnCard, riverCard>>
        ELSE Append(node.Board, turnCard)

(* finalBoard: on a flop a turn card and then a river card from the cards *)
(* left, on a turn a river card                                            *)
finalBoard(node, possible, seed, drawn) ==
    LET turnCard == possible[Intn(seed, drawn + 1, Len(possible)) + 1]
        possibleRivers == SelectSeq(possible, LAMBDA c : c # turnCard)
        riverCard == possibleRivers[Intn(seed, drawn + 2, Len(possibleRivers)) + 1]
    IN  IF Len(node.Board) = 3 THEN node.Board \o <<turnCard, riverCard>>
        ELSE Append(node.Board, turnCard)

rollout(node, seed, drawn) ==
    LET board == node.Board
        combo0 == node.PlayerCombos[1]
        combo1 == node.PlayerCombos[2]
        possible == possibleCards(usedCardsOf(node))
        final == finalBoard(node, possible, seed, drawn)
        cmp == Compare(Evaluate(<<combo0.Card1, combo0.Card2>> \o final),
                       Evaluate(<<combo1.Card1, combo1.Card2>> \o final))
        value == IF cmp > 0 THEN Payoffs(<<node.Pot, 0>>)
                 ELSE IF cmp < 0 THEN Payoffs(<<0, node.Pot>>)
                 ELSE <<Frac(node.Pot, 2 * UnitsPerBB), Frac(node.Pot, 2 * UnitsPerBB)>>
    IN  IF Len(board) # 3 /\ Len(board) # 4 THEN [value |-> Payoffs(node.Payoff), drawn |-> drawn]
        ELSE IF Len(possible) < 2
        THEN [value |-> <<Frac(node.Pot, 2 * UnitsPerBB), Frac(node.Pot, 2 * UnitsPerBB)>>,
              drawn |-> drawn]
        ELSE [value |-> value, drawn |-> IF Len(board) = 3 THEN drawn + 2 ELSE drawn + 1]

(* the first index whose cumulative probability reaches r, else the last   *)
sampleAction(strategy, r) ==
    LET reached == {i \in DOMAIN strategy : FLeq(r, FSum(SubSeq(strategy, 1, i)))}
    IN  IF reached = {} THEN Len(strategy)
        ELSE CHOOSE i \in reached : \A j \in reached : i <= j

(* the orders in which a range over the map node.Children can yield its    *)
(* keys: the language leaves the order open, every permutation can occur   *)
MapOrders(children) ==
    {o \in [1 .. Cardinality(DOMAIN children) -> DOMAIN children] :
        \A i, j \in DOMAIN o : o[i] = o[j] => i = j}

(* the one element of a singleton set.  The({F(x) : x \in {e}}) is F(e)    *)
(* with e computed once: the traversals below bind in this way every value *)
(* the program computes once and then uses several times.                  *)
The(S) == CHOOSE x \in S : TRUE

(* a faulty variant: the regret of the sampled action is taken against a  *)
(* node value of zero and not against the sampled child's value            *)
mccfrUpdatedAgainstZero(node, reachProb0, reachProb1, sampleProb, currentStrategy, actionIdx, child) ==
    LET player == node.Player
        nodeValue == child.value
        actionCFValue == child.value[player + 1]
        regrets == [i \in DOMAIN node.Actions |->
                      IF i = actionIdx THEN FDiv(actionCFValue, sampleProb) ELSE Zero]
        cfReachProb == IF player = 0 THEN reachProb1 ELSE reachProb0
        ownReachProb == IF player = 0 THEN reachProb0 ELSE reachProb1
        scaledRegrets == [i \in DOMAIN node.Actions |-> FMul(regrets[i], cfReachProb)]
        updated == UpdateStrategy(UpdateRegrets(child.profile[node.InfoSet], scaledRegrets),
                                  currentStrategy, ownReachProb)
    IN  IF child.panic THEN child
        ELSE Visit(nodeValue, [child.profile EXCEPT ![node.InfoSet] = updated],
                   child.drawn, FALSE)

(* outcome sampling.  order is the order in which the range over the       *)
(* children of the chance node yielded the keys in this traversal.         *)
(* mccfr is the function of that name; mccfrSampled is its body from the   *)
(* sampling of the action on, mccfrUpdated its body after the recursive    *)
(* call has returned child.                                                *)
RECURSIVE mccfr(_, _, _, _, _, _, _, _)

mccfrUpdated(node, reachProb0, reachProb1, sampleProb, currentStrategy, actionIdx, child) ==
    LET player == node.Player
        nodeValue == child.value
        cfValue == nodeValue[player + 1]
        actionCFValue == child.value[player + 1]
        regrets == [i \in DOMAIN node.Actions |->
                      IF i = actionIdx
                      THEN FDiv(FSub(actionCFValue, cfValue), sampleProb)
                      ELSE Zero]
        cfReachProb == IF player = 0 THEN reachProb1 ELSE reachProb0
        ownReachProb == IF player = 0 THEN reachProb0 ELSE reachProb1
        scaledRegrets == [i \in DOMAIN node.Actions |-> FMul(regrets[i], cfReachProb)]
        updated == UpdateStrategy(UpdateRegrets(child.profile[node.InfoSet], scaledRegrets),
                                  currentStrategy, ownReachProb)
    IN  IF child.panic THEN child
        ELSE Visit(nodeValue, [child.profile EXCEPT ![node.InfoSet] = updated],
                   child.drawn, FALSE)

mccfrSampled(node, reachProb0, reachProb1, sampleProb, created, currentStrategy, seed, drawn, order) ==
    LET player == node.Player
        sampled == Len(currentStrategy) > 0
        actionIdx == IF sampled THEN sampleAction(currentStrategy, Float64(seed, drawn + 1))
                     ELSE 1
        drawnHere == IF sampled THEN drawn + 1 ELSE drawn
    IN  IF actionIdx > Len(node.Actions)
        THEN Visit(<<Zero, Zero>>, created, drawnHere, TRUE)
        ELSE IF ActionKey(node.Actions[actionIdx]) \notin DOMAIN node.Children
        THEN Visit(<<Zero, Zero>>, created, drawnHere, FALSE)
        ELSE The({mccfrUpdated(node, reachProb0, reachProb1, sampleProb, currentStrategy,
                               idx, child) :
                    idx \in {actionIdx},
                    child \in {mccfr(kid, childReachProb0, childReachProb1, childSampleProb,
                                     created, seed, d, order) :
                                 kid \in {node.Children[ActionKey(node.Actions[actionIdx])]},
                                 childReachProb0 \in
                                     {IF player = 0
                                      THEN FMul(reachProb0, currentStrategy[actionIdx])
                                      ELSE reachProb0},
                                 childReachProb1 \in
                                     {IF player = 0 THEN reachProb1
                                      ELSE FMul(reachProb1, currentStrategy[actionIdx])},
                                 childSampleProb \in
                                     {FMul(sampleProb, currentStrategy[actionIdx])},
                                 d \in {drawnHere}}})

sampleChanceNode(node, reachProb0, reachProb1, sampleProb, profile, seed, drawn, order) ==
    IF Len(order) = 0 THEN Visit(<<Zero, Zero>>, profile, drawn, FALSE)
    ELSE LET sampledKey == order[Intn(seed, drawn + 1, Len(order)) + 1]
             prob == node.ChanceProbabilities[sampledKey]
             uniformProb == Frac(1, Len(order))
             correction == FDiv(prob, uniformProb)
         IN  The({Visit(<<FMul(child.value[1], correction), FMul(child.value[2], correction)>>,
                        child.profile, child.drawn, child.panic) :
                    child \in {mccfr(kid, childReachProb0, childReachProb1, childSampleProb,
                                     p, seed, drawn + 1, order) :
                                 kid \in {node.Children[sampledKey]},
                                 childReachProb0 \in {FMul(reachProb0, prob)},
                                 childReachProb1 \in {FMul(reachProb1, prob)},
                                 childSampleProb \in {FMul(sampleProb, uniformProb)},
                                 p \in {profile}}})

mccfr(node, reachProb0, reachProb1, sampleProb, profile, seed, drawn, order) ==
    IF node.IsTerminal
    THEN IF node.NeedsRollout
         THEN The({Visit(r.value, profile, r.drawn, FALSE) : r \in {rollout(node, seed, drawn)}})
         ELSE Visit(Payoffs(node.Payoff), profile, drawn, FALSE)
    ELSE IF node.IsChance
    THEN sampleChanceNode(node, reachProb0, reachProb1, sampleProb, profile, seed, drawn, order)
    ELSE The({mccfrSampled(node, reachProb0, reachProb1, sampleProb, created,
                           currentStrategy, seed, drawn, order) :
                created \in {GetOrCreate(profile, node.InfoSet, node.Actions)},
                currentStrategy \in {GetStrategy(GetOrCreate(profile, node.InfoSet,
                                                             node.Actions)[node.InfoSet])}})

(* vanilla CFR: every child of every node is visited, the children of a    *)
(* chance node in the order the range over the map yields them, the        *)
(* actions of a decision node in their own order.  Walk is the state of    *)
(* such a loop: the action values and the node value so far, the profile.  *)
Walk(values, nodeValue, profile) ==
    [values |-> values, nodeValue |-> nodeValue, profile |-> profile]

Weighted(nodeValue, weight, childValue) ==
    <<FAdd(nodeValue[1], FMul(weight, childValue[1])),
      FAdd(nodeValue[2], FMul(weight, childValue[2]))>>

RECURSIVE cfr(_, _, _, _, _)
RECURSIVE cfrOutcomes(_, _, _, _, _, _)
RECURSIVE cfrActions(_, _, _, _, _, _, _)

(* one pass of the loop over the outcomes of a chance node *)
cfrOutcome(node, reachProb0, reachProb1, order, k, before) ==
    LET prob == node.ChanceProbabilities[order[k]]
    IN  The({Walk(<<>>, Weighted(before.nodeValue, prob, child.value), child.profile) :
               child \in {cfr(kid, childReachProb0, childReachProb1, before.profile, order) :
                            kid \in {node.Children[order[k]]},
                            childReachProb0 \in {FMul(reachProb0, prob)},
                            childReachProb1 \in {FMul(reachProb1, prob)}}})

cfrOutcomes(node, reachProb0, reachProb1, profile, order, k) ==
    IF k = 0 THEN Walk(<<>>, <<Zero, Zero>>, profile)
    ELSE The({cfrOutcome(node, reachProb0, reachProb1, order, k, before) :
                before \in {cfrOutcomes(node, reachProb0, reachProb1, profile, order, k - 1)}})

(* one pass of the loop over the actions of a decision node *)
cfrAction(node, currentStrategy, reachProb0, reachProb1, order, k, before) ==
    LET actionKey == ActionKey(node.Actions[k])
    IN  IF actionKey \notin DOMAIN node.Children
        THEN Walk(Append(before.values, <<Zero, Zero>>), before.nodeValue, before.profile)
        ELSE The({Walk(Append(before.values, child.value),
                       Weighted(before.nodeValue, currentStrategy[k], child.value),
                       child.profile) :
                    child \in {cfr(kid, childReachProb0, childReachProb1, before.profile,
                                   order) :
                                 kid \in {node.Children[actionKey]},
                                 childReachProb0 \in
                                     {IF node.Player = 0
                                      THEN FMul(reachProb0, currentStrategy[k])
                                      ELSE reachProb0},
                                 childReachProb1 \in
                                     {IF node.Player = 0 THEN reachProb1
                                      ELSE FMul(reachProb1, currentStrategy[k])}}})

cfrActions(node, currentStrategy, reachProb0, reachProb1, profile, order, k) ==
    IF k = 0 THEN Walk(<<>>, <<Zero, Zero>>, profile)
    ELSE The({cfrAction(node, currentStrategy, reachProb0, reachProb1, order, k, before) :
                before \in {cfrActions(node, currentStrategy, reachProb0, reachProb1,
                                       profile, order, k - 1)}})

(* a faulty variant: the regrets are weighted by the player's own reach    *)
(* probability                                                             *)
cfrUpdatedOwnReach(node, reachProb0, reachProb1, currentStrategy, walk) ==
    LET player == node.Player
        cfValue == walk.nodeValue[player + 1]
        regrets == [i \in DOMAIN node.Actions |-> FSub(walk.values[i][player + 1], cfValue)]
        ownReachProb == IF player = 0 THEN reachProb0 ELSE reachProb1
        scaledRegrets == [i \in DOMAIN node.Actions |-> FMul(regrets[i], ownReachProb)]
        updated == UpdateStrategy(UpdateRegrets(walk.profile[node.InfoSet], scaledRegrets),
                                  currentStrategy, ownReachProb)
    IN  Visit(walk.nodeValue, [walk.profile EXCEPT ![node.InfoSet] = updated], 0, FALSE)

(* the body of cfr after the loop over the actions *)
cfrUpdated(node, reachProb0, reachProb1, currentStrategy, walk) ==
    LET player == node.Player
        cfValue == walk.nodeValue[player + 1]
        regrets == [i \in DOMAIN node.Actions |-> FSub(walk.values[i][player + 1], cfValue)]
        cfReachProb == IF player = 0 THEN reachProb1 ELSE reachProb0
        ownReachProb == IF player = 0 THEN reachProb0 ELSE reachProb1
        scaledRegrets == [i \in DOMAIN node.Actions |-> FMul(regrets[i], cfReachProb)]
        updated == UpdateStrategy(UpdateRegrets(walk.profile[node.InfoSet], scaledRegrets),
                                  currentStrategy, ownReachProb)
    IN  Visit(walk.nodeValue, [walk.profile EXCEPT ![node.InfoSet] = updated], 0, FALSE)

(* the body of cfr at a decision node from the loop over the actions on *)
cfrDecision(node, reachProb0, reachProb1, created, currentStrategy, order) ==
    The({cfrUpdated(node, reachProb0, reachProb1, currentStrategy, walk) :
           walk \in {cfrActions(node, currentStrategy, reachProb0, reachProb1, created,
                                order, Len(node.Actions))}})

cfr(node, reachProb0, reachProb1, profile, order) ==
    IF node.IsTerminal THEN Visit(Payoffs(node.Payoff), profile, 0, FALSE)
    ELSE IF node.IsChance
    THEN The({Visit(walk.nodeValue, walk.profile, 0, FALSE) :
                walk \in {cfrOutcomes(node, reachProb0, reachProb1, profile, order,
                                      Len(order))}})
    ELSE The({cfrDecision(node, reachProb0, reachProb1, created, currentStrategy, order) :
                created \in {GetOrCreate(profile, node.InfoSet, node.Actions)},
                currentStrategy \in {GetStrategy(GetOrCreate(profile, node.InfoSet,
                                                             node.Actions)[node.InfoSet])}})

-----------------------------------------------------------------------------
(* Training runs: two solvers of the same kind are given the same tree and *)
(* the same seed, and each runs its iterations in its own time.  The tree  *)
(* and the kind of solver are those of a host (the command line, the web   *)
(* host) on a position, or those a test of the package passes.             *)

(* iterations per solver: MaxCmdTrain on the five-way trees of the command *)
(* line, whose fractions outgrow the integers soonest, MaxTrain elsewhere  *)
MaxTrain == 2

MaxCmdTrain == 1

HostSeed == 42

Seeds == {HostSeed, 7}

TrainStacks == <<100 * UnitsPerBB, 100 * UnitsPerBB>>

TrainCombos == <<Combo(Ad, Ac), Combo(Qd, Qh)>>

(* the positions solved: one matchup either way round, and a range of two  *)
(* combos against one combo either way round                               *)
TrainDeals == {<<<<Combo(Ad, Ac)>>, <<Combo(Qd, Qh)>>>>,
               <<<<Combo(Qd, Qh)>>, <<Combo(Ad, Ac)>>>>,
               <<<<Combo(Ad, Ac), Combo(Ah, Kd)>>, <<Combo(Qd, Qh)>>>>,
               <<<<Combo(Qd, Qh)>>, <<Combo(Ad, Ac), Combo(Ah, Kd)>>>>,
               <<<<Combo(Qd, Qh), Combo(As, Kc)>>, <<Combo(Ad, Ac)>>>>}

(* the tree a host builds for a parsed position under its configuration:  *)
(* BuildRange when either range has several combos, else Build             *)
PositionBuild(config, board, range0, range1) ==
    LET gs == GameState(TwoPlayers(TrainStacks[1], TrainStacks[2]), 10 * UnitsPerBB, board,
                        <<>>, 0)
    IN  IF IsRangeVsRange(range0, range1) THEN BuildRange(config, gs, range0, range1)
        ELSE Build(config, gs, range0[1], range1[1])

(* cmd: the default bet sizes; web: one bet size *)
HostConfig(entry) == IF entry = "cmd" THEN DefaultRiverConfig ELSE WebConfig

(* cmd: MCCFR on a flop or a turn, vanilla CFR on a river *)
cliSolver(board, range0, range1) ==
    IF Len(board) = 3 \/ Len(board) = 4 THEN "MCCFR"
    ELSE IF Len(board) = 5 THEN "CFR"
    ELSE "exit"

(* web: MCCFR on a flop, a turn and a river of ranges, else vanilla CFR *)
runSolver(board, range0, range1) ==
    IF Len(board) = 3 \/ Len(board) = 4 \/ IsRangeVsRange(range0, range1) THEN "MCCFR"
    ELSE "CFR"

(* the solver an entry point makes for a position *)
HostSolver(entry, board, range0, range1) ==
    IF entry = "cmd" THEN cliSolver(board, range0, range1)
    ELSE runSolver(board, range0, range1)

(* a solver: its profile, the values its source has yielded, the Iterate  *)
(* calls made, and what the traversal of the last call returned at the root *)
Run(profile, drawn, done, panic, value) ==
    [profile |-> profile, drawn |-> drawn, done |-> done, panic |-> panic, value |-> value]

NewRun == Run(NewStrategyProfile, 0, 0, FALSE, <<Zero, Zero>>)

NewRuns == [status |-> "runs", runs |-> <<NewRun, NewRun>>]

TrainInit ==
    /\ input = NoInput
    /\ result = NoResult
    /\ host = HostIdle

(* a host (cmd, web) is given a position: it builds the tree and makes its *)
(* solver with the fixed seed; a build that fails ends it.  A test of the *)
(* package builds a tree as the web host does and makes a solver of either *)
(* kind with a seed of its own.  Two solvers are made, to compare runs.    *)
StartTraining ==
    /\ input = NoInput
    /\ \E entry \in {"cmd", "web", "test"}, board \in HostBoards, d \in TrainDeals,
          solver \in {"CFR", "MCCFR"}, seed \in Seeds :
          \E built \in {PositionBuild(HostConfig(entry), board, d[1], d[2])} :
             /\ built.status = "ok"
             /\ entry # "test" => /\ seed = HostSeed
                                  /\ solver = HostSolver(entry, board, d[1], d[2])
             /\ input' = [op |-> "Train", entry |-> entry, solver |-> solver,
                          root |-> built.root, seed |-> seed]
    /\ result' = NewRuns
    /\ UNCHANGED host

(* a test makes a solver for the rollout terminal of a turn or a flop *)
TestRollout ==
    /\ input = NoInput
    /\ \E solver \in {"CFR", "MCCFR"}, seed \in Seeds, board \in {TurnBoard, FlopBoard} :
          input' = [op |-> "Train", entry |-> "test", solver |-> solver,
                    root |-> NewRolloutNode(10 * UnitsPerBB, board, TrainStacks, TrainCombos),
                    seed |-> seed]
    /\ result' = NewRuns
    /\ UNCHANGED host

Training == input.op = "Train"

RootOrders == IF input.root.IsChance THEN MapOrders(input.root.Children) ELSE {<<>>}

CanIterate(r) ==
    /\ result.runs[r].done < IF input.entry = "cmd" THEN MaxCmdTrain ELSE MaxTrain
    /\ ~result.runs[r].panic

(* a faulty variant: the two solvers write into one profile and draw from *)
(* one source                                                              *)
MCCFRIterateSharedState ==
    /\ Training
    /\ input.solver = "MCCFR"
    /\ \E r \in 1 .. 2, order \in RootOrders :
          /\ CanIterate(r)
          /\ \E v \in {mccfr(input.root, One, One, One, result.runs[r].profile,
                            input.seed, result.runs[r].drawn, order)} :
                result' = [result EXCEPT
                              !.runs[r] = Run(v.profile, v.drawn, result.runs[r].done + 1,
                                              v.panic, v.value),
                              !.runs[3 - r] = Run(v.profile, v.drawn, result.runs[3 - r].done,
                                                  v.panic, result.runs[3 - r].value)]
    /\ UNCHANGED <<input, host>>

(* MCCFR.Iterate on one of the two solvers *)
MCCFRIterate ==
    /\ Training
    /\ input.solver = "MCCFR"
    /\ \E r \in 1 .. 2, order \in RootOrders :
          /\ CanIterate(r)
          /\ \E v \in {mccfr(input.root, One, One, One, result.runs[r].profile,
                            input.seed, result.runs[r].drawn, order)} :
                result' = [result EXCEPT !.runs[r] =
                              Run(v.profile, v.drawn, result.runs[r].done + 1, v.panic,
                                  v.value)]
    /\ UNCHANGED <<input, host>>

(* CFR.Iterate on one of the two solvers *)
CFRIterate ==
    /\ Training
    /\ input.solver = "CFR"
    /\ \E r \in 1 .. 2, order \in RootOrders :
          /\ CanIterate(r)
          /\ \E v \in {cfr(input.root, One, One, result.runs[r].profile, order)} :
                result' = [result EXCEPT !.runs[r] =
                              Run(v.profile, v.drawn, result.runs[r].done + 1, v.panic,
                                  v.value)]
    /\ UNCHANGED <<input, host>>

TrainNext == StartTraining \/ TestRollout \/ MCCFRIterate \/ CFRIterate

TrainSpec == TrainInit /\ [][TrainNext]_vars

-----------------------------------------------------------------------------
(* Properties of the training runs *)

(* C11: given an identical tree, seed and iteration count, two MCCFR runs  *)
(* hold identical regret sums and strategy sums at every info set.         *)
C11_SameSeedSameProfile ==
    (Training /\ input.solver = "MCCFR" /\ result.runs[1].done = result.runs[2].done)
    => result.runs[1].profile = result.runs[2].profile

HasChanceOrRollout(root) == \E n \in Nodes(root) : n.IsChance \/ n.NeedsRollout

(* C12: every host entry point (command line and web) runs MCCFR whenever  *)
(* the built tree contains a Chance node or Rollout nodes, and runs        *)
(* vanilla CFR only on fully enumerated river trees of a single matchup.   *)
C12_MCCFRWheneverChanceOrRollout ==
    (Training /\ input.entry \in {"cmd", "web"}) =>
        /\ HasChanceOrRollout(input.root) => input.solver = "MCCFR"
        /\ input.solver = "CFR" =>
              /\ Len(input.root.Board) = 5
              /\ ~HasChanceOrRollout(input.root)

-----------------------------------------------------------------------------
(* The library functions applied to inputs of their own: a call of one of  *)
(* them leaves its arguments in input and what it returned in result.      *)

MaxActions == 3

(* accumulated regrets and strategy weights: negative, zero and positive,  *)
(* whole and fractional                                                     *)
RegretValues == {Frac(0 - 2, 1), Frac(0 - 1, 3), Zero, Frac(1, 2), Frac(5, 1)}

StrategySumValues == {Zero, Frac(1, 3), Frac(30, 1), Frac(70, 1)}

TestActions == <<Action(Check, 0), Action(Bet, 10 * UnitsPerBB), Action(Bet, 20 * UnitsPerBB),
                 Action(Bet, 30 * UnitsPerBB)>>

LibInit ==
    /\ input = NoInput
    /\ result = NoResult
    /\ host = HostIdle

(* strat.RegretSum[i] = ...; strat.GetStrategy() *)
DoGetStrategy ==
    /\ input = NoInput
    /\ \E n \in 1 .. MaxActions :
          \E regretSum \in [1 .. n -> RegretValues] :
             \E s \in {Strategy("test", SubSeq(TestActions, 1, n), regretSum,
                                [i \in 1 .. n |-> Zero])} :
                /\ input' = [op |-> "GetStrategy", s |-> s]
                /\ result' = [status |-> "strategy", strategy |-> GetStrategy(s)]
    /\ UNCHANGED host

(* strat.StrategySum[i] = ...; strat.GetAverageStrategy() *)
DoGetAverageStrategy ==
    /\ input = NoInput
    /\ \E n \in 1 .. MaxActions :
          \E strategySum \in [1 .. n -> StrategySumValues] :
             \E s \in {Strategy("test", SubSeq(TestActions, 1, n), [i \in 1 .. n |-> Zero],
                                strategySum)} :
                /\ input' = [op |-> "GetAverageStrategy", s |-> s]
                /\ result' = [status |-> "strategy", strategy |-> GetAverageStrategy(s)]
    /\ UNCHANGED host

(* Text is a sequence of one-character strings, so that joining and       *)
(* splitting on a separator is computed and not assumed.                   *)
RankChars == <<"2", "3", "4", "5", "6", "7", "8", "9", "T", "J", "Q", "K", "A">>
SuitChars == <<"s", "h", "d", "c">>

(* Card.String: "%s%s" of the rank and the suit. *)
CardString(card) ==
    <<IF card.Rank \in Two .. Ace THEN RankChars[card.Rank + 1] ELSE "?",
      IF card.Suit \in Spades .. Clubs THEN SuitChars[card.Suit + 1] ELSE "?">>

RECURSIVE Concat(_)
Concat(texts) == IF texts = <<>> THEN <<>> ELSE Head(texts) \o Concat(Tail(texts))

CardsString(cs) == Concat([i \in DOMAIN cs |-> CardString(cs[i])])

DigitChars == <<"0", "1", "2", "3", "4", "5", "6", "7", "8", "9">>
DigitSet == {DigitChars[i] : i \in DOMAIN DigitChars}

RECURSIVE Digits(_)
Digits(n) == IF n < 10 THEN <<DigitChars[n + 1]>>
             ELSE Digits(n \div 10) \o <<DigitChars[(n % 10) + 1]>>

(* The characters of an action token: its letter, and for a bet or a      *)
(* raise the "%.1f" amount, whose tenths FormatAmount has rounded.        *)
TokenChars(token) ==
    IF token[2] = NoAmount THEN <<token[1]>>
    ELSE <<token[1]>> \o Digits(token[2] \div 10) \o <<".">> \o Digits(token[2] % 10)

(* string(actingPlayer) *)
PositionChars(position) == IF position = BTN THEN <<"B", "T", "N">> ELSE <<"B", "B">>

JoinNoSeparator(parts, sep) == Concat(parts)

(* strings.Join(parts, sep) *)
RECURSIVE Join(_, _)
Join(parts, sep) ==
    IF parts = <<>> THEN <<>>
    ELSE IF Len(parts) = 1 THEN parts[1]
    ELSE parts[1] \o <<sep>> \o Join(Tail(parts), sep)

(* The string GetInfoSet returns for the parts it is given: the board,    *)
(* the history, ">" and the position, the hole cards, joined by "|".      *)
InfoSetString(infoSet) ==
    Join(<<CardsString(infoSet[1]),
           Concat([i \in DOMAIN infoSet[2] |-> TokenChars(infoSet[2][i])]),
           <<">">> \o PositionChars(infoSet[3]),
           CardsString(infoSet[4])>>, "|")

(* GetInfoSetBucketed: the same three leading parts, then "BUCKET_%d". *)
GetInfoSetBucketed(board, history, actingPlayer, bucketID) ==
    Join(<<CardsString(board),
           Concat([i \in DOMAIN history |-> TokenChars(ActionString(history[i]))]),
           <<">">> \o PositionChars(actingPlayer),
           <<"B", "U", "C", "K", "E", "T", "_">> \o Digits(bucketID)>>, "|")

MaxBucket == 11
KeyBoards == {RiverBoard, TurnBoard, FlopBoard}
KeyCombos == {<<Combo(Ah, Kd), Combo(Qd, Qh)>>, <<Combo(Ad, Ac), Combo(As, Kc)>>}
KeyHistories ==
    {<<>>, <<Action(Check, 0)>>, <<Action(Bet, 10 * UnitsPerBB)>>,
     <<Action(Check, 0), Action(Bet, 5 * UnitsPerBB + (UnitsPerBB \div 4))>>,
     <<Action(Bet, (3 * UnitsPerBB) \div 4), Action(Raise, 12 * UnitsPerBB + Cent)>>,
     <<Action(Bet, 2 * UnitsPerBB), Action(Call, 0)>>,
     <<Action(Bet, 2 * UnitsPerBB), Action(Fold, 0)>>}

(* buildNode's decision branch: the position and the hole cards of the    *)
(* player to act, then GetInfoSet.                                         *)
DoGetInfoSet ==
    /\ input = NoInput
    /\ \E board \in KeyBoards, history \in KeyHistories, toAct \in 0 .. 1, combos \in KeyCombos :
          LET playerCombo == combos[toAct + 1]
              holeCards == <<playerCombo.Card1, playerCombo.Card2>>
              playerPos == <<BTN, BB>>[toAct + 1]
          IN  /\ input' = [op |-> "GetInfoSet", board |-> board, history |-> history,
                           actingPlayer |-> playerPos, holeCards |-> holeCards]
              /\ result' = [status |-> "key",
                            key |-> InfoSetString(GetInfoSet(board, history, playerPos,
                                                             holeCards))]
    /\ UNCHANGED host

DoGetInfoSetBucketed ==
    /\ input = NoInput
    /\ \E board \in KeyBoards, history \in KeyHistories, actingPlayer \in {BTN, BB},
          bucketID \in 0 .. MaxBucket :
          /\ input' = [op |-> "GetInfoSetBucketed", board |-> board, history |-> history,
                       actingPlayer |-> actingPlayer, bucketID |-> bucketID]
          /\ result' = [status |-> "key",
                        key |-> GetInfoSetBucketed(board, history, actingPlayer, bucketID)]
    /\ UNCHANGED host

(* Hand values of every category: the ones the package's test compares   *)
(* and pairs that differ in one tiebreaker only, or in the category only. *)
ComparedValues ==
    {HandValue(StraightFlush, Nine, 0, 0, 0, 0),
     HandValue(FourOfAKind, Ace, King, 0, 0, 0),
     HandValue(FourOfAKind, Two, Ace, 0, 0, 0),
     HandValue(FullHouse, Ace, King, 0, 0, 0),
     HandValue(FullHouse, Three, Two, 0, 0, 0),
     HandValue(Flush, Ace, King, Nine, Five, Two),
     HandValue(Straight, Ace, 0, 0, 0, 0),
     HandValue(Straight, Five, 0, 0, 0, 0),
     HandValue(ThreeOfAKind, King, Nine, Seven, 0, 0),
     HandValue(TwoPair, King, Nine, Seven, 0, 0),
     HandValue(OnePair, Ace, King, Queen, Jack, 0),
     HandValue(OnePair, Ace, Queen, Nine, Seven, 0),
     HandValue(OnePair, King, Ace, Queen, Jack, 0),
     HandValue(HighCard, Ace, King, Queen, Jack, Nine),
     HandValue(HighCard, Ace, King, Queen, Jack, Eight)}

(* val1.Compare(val2) on three hand values, pair by pair *)
DoCompare ==
    /\ input = NoInput
    /\ \E a \in ComparedValues, b \in ComparedValues, c \in ComparedValues :
          /\ input' = [op |-> "Compare", a |-> a, b |-> b, c |-> c]
          /\ result' = [status |-> "compared", ab |-> Compare(a, b), ba |-> Compare(b, a),
                        bc |-> Compare(b, c), ac |-> Compare(a, c)]
    /\ UNCHANGED host

(* The rank lists TestCheckStraight counts: every choice of five         *)
(* different ranks, highest first, and lists that hold a pair.             *)
FiveRanks == {rs \in SUBSET (Two .. Ace) : Cardinality(rs) = 5}

RECURSIVE HighestFirst(_)
HighestFirst(rs) ==
    IF rs = {} THEN <<>>
    ELSE LET top == CHOOSE r \in rs : \A q \in rs : q <= r
         IN  <<top>> \o HighestFirst(rs \ {top})

PairedRanks ==
    {<<Ace, Ace, King, Queen, Jack>>, <<Ace, Five, Four, Three, Three>>,
     <<Six, Five, Four, Three, Three>>, <<Ace, Ace, Four, Three, Two>>}

RankLists == {HighestFirst(rs) : rs \in FiveRanks} \cup PairedRanks

(* five cards of the listed ranks that are not all of one suit *)
OffSuit(ranks) == [i \in 1 .. 5 |-> NewCard(ranks[i], (i - 1) % 4)]

(* rankCounts[rank]++ over the list, then checkStraight(rankCounts); the   *)
(* same five ranks as an off-suit hand through evaluate5Cards.             *)
DoCheckStraight ==
    /\ input = NoInput
    /\ \E ranks \in RankLists :
          \E st \in {checkStraight(RankCounts(OffSuit(ranks)))} :
             /\ input' = [op |-> "checkStraight", ranks |-> ranks]
             /\ result' = [status |-> "straight", ok |-> st.ok, high |-> st.high,
                           value |-> evaluate5Cards(OffSuit(ranks))]
    /\ UNCHANGED host

-----------------------------------------------------------------------------
(* pkg/notation: ranges *)

RECURSIVE TrimLeft(_)
TrimLeft(text) == IF text # <<>> /\ Head(text) = " " THEN TrimLeft(Tail(text)) ELSE text

RECURSIVE TrimRight(_)
TrimRight(text) ==
    IF text # <<>> /\ text[Len(text)] = " " THEN TrimRight(SubSeq(text, 1, Len(text) - 1))
    ELSE text

(* strings.TrimSpace, on texts whose only white space is the blank *)
TrimSpace(text) == TrimRight(TrimLeft(text))

(* strings.Split(text, sep) *)
RECURSIVE Split(_, _)
Split(text, sep) ==
    IF \A i \in DOMAIN text : text[i] # sep THEN <<text>>
    ELSE LET k == CHOOSE i \in DOMAIN text :
                     text[i] = sep /\ \A j \in 1 .. i - 1 : text[j] # sep
         IN  <<SubSeq(text, 1, k - 1)>> \o Split(SubSeq(text, k + 1, Len(text)), sep)

NoRank == 0 - 1

parseRankChar(b) ==
    IF \E r \in Two .. Ace : RankChars[r + 1] = b
    THEN CHOOSE r \in Two .. Ace : RankChars[r + 1] = b
    ELSE IF b = "a" THEN Ace
    ELSE IF b = "k" THEN King
    ELSE IF b = "q" THEN Queen
    ELSE IF b = "j" THEN Jack
    ELSE IF b = "t" THEN Ten
    ELSE NoRank

Suits == <<Spades, Hearts, Diamonds, Clubs>>

(* the suit indices of the two nested loops, in loop order *)
SuitLoops == [k \in 1 .. 16 |-> <<((k - 1) \div 4) + 1, ((k - 1) % 4) + 1>>]

CombosOf(rank1, rank2, chosen) ==
    [k \in DOMAIN chosen |-> Combo(NewCard(rank1, Suits[chosen[k][1]]),
                                   NewCard(rank2, Suits[chosen[k][2]]))]

generateCombosAnySuits(rank1, rank2, suited) ==
    CombosOf(rank1, rank2,
             IF rank1 = rank2 THEN SelectSeq(SuitLoops, LAMBDA p : p[1] < p[2])
             ELSE IF suited THEN SelectSeq(SuitLoops, LAMBDA p : p[1] = p[2])
             ELSE SuitLoops)

generateCombos(rank1, rank2, suited) ==
    CombosOf(rank1, rank2,
             IF rank1 = rank2 THEN SelectSeq(SuitLoops, LAMBDA p : p[1] < p[2])
             ELSE IF suited THEN SelectSeq(SuitLoops, LAMBDA p : p[1] = p[2])
             ELSE SelectSeq(SuitLoops, LAMBDA p : p[1] # p[2]))

Parsed(combos) == [err |-> "nil", combos |-> combos]
Failed(msg) == [err |-> msg, combos |-> <<>>]

parseSingleHand(hand0) ==
    LET hand == TrimSpace(hand0)
    IN  IF Len(hand) < 2 \/ Len(hand) > 3 THEN Failed("invalid hand notation")
        ELSE LET rank1 == parseRankChar(hand[1])
                 rank2 == parseRankChar(hand[2])
             IN  IF rank1 = NoRank \/ rank2 = NoRank THEN Failed("invalid rank")
                 ELSE IF Len(hand) = 3
                 THEN (IF hand[3] \in {"s", "S"}
                       THEN Parsed(generateCombos(rank1, rank2, TRUE))
                       ELSE IF hand[3] \in {"o", "O"}
                       THEN Parsed(generateCombos(rank1, rank2, FALSE))
                       ELSE Failed("invalid suited/offsuit indicator"))
                 ELSE IF rank1 # rank2 THEN Failed("ambiguous hand")
                 ELSE Parsed(generateCombos(rank1, rank2, FALSE))

Components(rank1, rank2, suited) ==
    [err |-> "nil", rank1 |-> rank1, rank2 |-> rank2, suited |-> suited]
NoComponents(msg) == [err |-> msg, rank1 |-> 0, rank2 |-> 0, suited |-> FALSE]

parseHandComponents(hand0) ==
    LET hand == TrimSpace(hand0)
    IN  IF Len(hand) < 2 \/ Len(hand) > 3 THEN NoComponents("invalid hand notation")
        ELSE LET rank1 == parseRankChar(hand[1])
                 rank2 == parseRankChar(hand[2])
             IN  IF rank1 = NoRank \/ rank2 = NoRank THEN NoComponents("invalid rank")
                 ELSE IF Len(hand) = 3
                 THEN (IF rank1 = rank2
                       THEN NoComponents("pair cannot have suited/offsuit indicator")
                       ELSE IF hand[3] \in {"s", "S"} THEN Components(rank1, rank2, TRUE)
                       ELSE IF hand[3] \in {"o", "O"} THEN Components(rank1, rank2, FALSE)
                       ELSE NoComponents("invalid suited/offsuit indicator"))
                 ELSE IF rank1 # rank2 THEN NoComponents("ambiguous hand")
                 ELSE Components(rank1, rank2, FALSE)

(* for r := from; r >= to; r-- { allCombos = append(allCombos, ...) } *)
RECURSIVE CombosDown(_, _, _, _, _)
CombosDown(from, to, fixed, pairs, suited) ==
    IF from < to THEN <<>>
    ELSE generateCombos(IF pairs THEN from ELSE fixed, from, suited)
         \o CombosDown(from - 1, to, fixed, pairs, suited)

parseRangeWithDash(rangeStr) ==
    LET parts == Split(rangeStr, "-")
    IN  IF Len(parts) # 2 THEN Failed("invalid range format")
        ELSE LET start == parseHandComponents(parts[1])
                 end == parseHandComponents(parts[2])
             IN  IF start.err # "nil" THEN Failed("invalid start hand")
                 ELSE IF end.err # "nil" THEN Failed("invalid end hand")
                 ELSE IF start.suited # end.suited
                 THEN Failed("mismatched suited/offsuit in range")
                 ELSE IF start.rank1 = start.rank2 /\ end.rank1 = end.rank2
                 THEN Parsed(CombosDown(start.rank1, end.rank1, 0, TRUE, start.suited))
                 ELSE IF start.rank1 # end.rank1
                 THEN Failed("first rank must match")
                 ELSE Parsed(CombosDown(start.rank2, end.rank2, start.rank1, FALSE,
                                        start.suited))

RECURSIVE parseParts(_, _)
parseParts(parts, allCombos) ==
    IF parts = <<>> THEN Parsed(allCombos)
    ELSE LET part == TrimSpace(Head(parts))
         IN  IF part = <<>> THEN parseParts(Tail(parts), allCombos)
             ELSE LET parsed == IF \E i \in DOMAIN part : part[i] = "-"
                                THEN parseRangeWithDash(part)
                                ELSE parseSingleHand(part)
                  IN  IF parsed.err # "nil" THEN Failed(parsed.err)
                      ELSE parseParts(Tail(parts), allCombos \o parsed.combos)

ParseRange(rangeStr0) ==
    LET rangeStr == TrimSpace(rangeStr0)
    IN  IF rangeStr = <<>> THEN Failed("empty range string")
        ELSE parseParts(Split(rangeStr, ","), <<>>)

(* Range strings: every single term XY, XYs, XYo over the thirteen ranks,  *)
(* every dash range between two terms over DashRanks, and the strings of   *)
(* the package's tests that are neither.                                   *)
Term(r1, r2, suffix) == [r1 |-> r1, r2 |-> r2, suffix |-> suffix]
NoTerm == Term(NoRank, NoRank, "")
TermChars(t) ==
    <<RankChars[t.r1 + 1], RankChars[t.r2 + 1]>> \o (IF t.suffix = "" THEN <<>> ELSE <<t.suffix>>)

Terms(ranks) == {Term(r1, r2, suffix) : r1 \in ranks, r2 \in ranks, suffix \in {"", "s", "o"}}

DashRanks == {Ace, King, Queen, Jack, Ten}

Written(kind, from, to, text) == [kind |-> kind, from |-> from, to |-> to, text |-> text]

OtherStrings ==
    {<<>>, <<"A">>, <<"A", "K", "x">>, <<"X", "X">>, <<" ", "a", "k", "S", " ">>,
     <<"A", "A", ",", "K", "K", ",", "A", "K", "s">>,
     <<"Q", "Q", "-", "J", "J", ",", " ", "A", "J", "s", "-", "A", "T", "s">>,
     <<"A", "A", ",", ",", "K", "K">>, <<"A", "A", "-", "K", "K", "-", "Q", "Q">>,
     <<"Q", "Q", "-", "9", "9">>, <<"A", "A", ",", "A", "K">>}

RangeInputs ==
    {Written("term", t, NoTerm, TermChars(t)) : t \in Terms(Two .. Ace)}
    \cup {Written("dash", ft[1], ft[2], TermChars(ft[1]) \o <<"-">> \o TermChars(ft[2])) :
             ft \in Terms(DashRanks) \X Terms(DashRanks)}
    \cup {Written("other", NoTerm, NoTerm, text) : text \in OtherStrings}

DoParseRange ==
    /\ input = NoInput
    /\ \E w \in RangeInputs :
          /\ input' = [op |-> "ParseRange", rangeStr |-> w.text, written |-> w]
          /\ result' = [status |-> "parsed"] @@ ParseRange(w.text)
    /\ UNCHANGED host

-----------------------------------------------------------------------------
(* pkg/equity *)

(* the cards in the order of the loops: rank from Two to Ace, suit from    *)
(* Spades to Clubs                                                         *)
EquityDeck == [i \in 1 .. 52 |-> NewCard((i - 1) \div 4, (i - 1) % 4)]

makeCardSet(cardList) == {cardList[i] : i \in DOMAIN cardList}

Counts(wins, ties, total) == [wins |-> wins, ties |-> ties, total |-> total]

(* "for _, oppCombo := range opponentRange" on one full board: a combo     *)
(* that holds a card of skip is passed over; every other one is compared   *)
(* with the hero's hand.  The value maps each combo that is counted to     *)
(* cmp.                                                                    *)
showdowns(hero, fullBoard, opponentRange, skip) ==
    The({[i \in {i \in DOMAIN opponentRange : /\ opponentRange[i].Card1 \notin skip
                                              /\ opponentRange[i].Card2 \notin skip} |->
             Compare(heroHand, Evaluate(<<opponentRange[i].Card1, opponentRange[i].Card2>>
                                        \o fullBoard))]
         : heroHand \in {Evaluate(hero \o fullBoard)}}) @@ <<>>

(* wins++, ties++, total++ over the showdowns of every runout *)
Tally(table) ==
    LET counted == UNION {{<<k, i>> : i \in DOMAIN table[k]} : k \in DOMAIN table}
    IN  Counts(Cardinality({p \in counted : table[p[1]][p[2]] > 0}),
               Cardinality({p \in counted : table[p[1]][p[2]] = 0}),
               Cardinality(counted))

EquityResult(counts) ==
    IF counts.total = 0
    THEN [WinPct |-> Zero, TiePct |-> Zero, Equity |-> Frac(1, 2)] @@ counts
    ELSE [WinPct |-> Frac(counts.wins, counts.total),
          TiePct |-> Frac(counts.ties, counts.total),
          Equity |-> FAdd(Frac(counts.wins, counts.total),
                          FDiv(Frac(counts.ties, counts.total), Frac(2, 1)))] @@ counts

EquityOf(table) == The({EquityResult(counts) : counts \in {Tally(table)}})

calculateRiverEquity(hero, board, opponentRange) ==
    The({EquityOf(table) : table \in {<<showdowns(hero, board, opponentRange, {})>>}})

calculateTurnEquity(hero, board, opponentRange) ==
    LET usedCards == makeCardSet(hero \o board)
    IN  The({EquityOf(table) :
               table \in {The({[k \in DOMAIN rivers |->
                                   showdowns(hero, board \o <<rivers[k]>>, opponentRange,
                                             {rivers[k]})]
                               : rivers \in {SelectSeq(EquityDeck,
                                                       LAMBDA river : river \notin usedCards)}})
                          @@ <<>>}})

(* the k-th river after a turn: the unused cards in order without the turn *)
RiverIndex(turnIndex, k) == IF k < turnIndex THEN k ELSE k + 1

calculateFlopEquity(hero, board, opponentRange) ==
    LET usedCards == makeCardSet(hero \o board)
    IN  The({EquityOf(table) :
               table \in {The({[n \in 1 .. Len(turns) * (Len(turns) - 1) |->
                                   LET t == ((n - 1) \div (Len(turns) - 1)) + 1
                                       r == RiverIndex(t, ((n - 1) % (Len(turns) - 1)) + 1)
                                   IN  showdowns(hero, board \o <<turns[t], turns[r]>>,
                                                 opponentRange, {turns[t], turns[r]})]
                               : turns \in {SelectSeq(EquityDeck,
                                                      LAMBDA turn : turn \notin usedCards)}})
                          @@ <<>>}})

CalculateEquity(hero, board, opponentRange) ==
    IF Len(board) = 5 THEN calculateRiverEquity(hero, board, opponentRange)
    ELSE IF Len(board) = 4 THEN calculateTurnEquity(hero, board, opponentRange)
    ELSE calculateFlopEquity(hero, board, opponentRange)

(* heroes and opponent ranges: free of collisions, sharing a card with    *)
(* the hero (Ad), with the board (Kh), holding a card that can still come *)
(* (3h), and empty                                                         *)
EquityHeroes == {<<Ad, Ac>>, <<Ah, Kd>>}
EquityBoards == {RiverBoard, TurnBoard}
EquityRanges ==
    {<<>>, <<Combo(Qd, Qh)>>, <<Combo(Ad, Ks)>>, <<Combo(Kh, Qd)>>, <<Combo(c3h, Qd)>>,
     <<Combo(Qd, Qh), Combo(As, Kc)>>, <<Combo(Qd, Qh), Combo(Ad, Ks), Combo(Kh, Qd)>>}

(* on the flop, one hero against a combo that holds the king of the board *)
EquityInputs ==
    (EquityHeroes \X EquityBoards \X EquityRanges)
    \cup {<<<<Ad, Ac>>, FlopBoard, <<Combo(Kh, Qd)>>>>}

DoCalculateEquity ==
    /\ input = NoInput
    /\ \E e \in EquityInputs :
          /\ input' = [op |-> "CalculateEquity", hero |-> e[1], board |-> e[2],
                       opponentRange |-> e[3]]
          /\ result' = [status |-> "equity"] @@ CalculateEquity(e[1], e[2], e[3])
    /\ UNCHANGED host

(* the rollout nodes a test makes with NewRolloutNode: a turn and a flop,  *)
(* and boards of five and of two cards, on which no rollout can be made   *)
RolloutBoards == {TurnBoard, FlopBoard, RiverBoard, <<Kh, c9s>>}

RolloutCombos == {TrainCombos, <<Combo(Ah, Kd), Combo(As, Kc)>>}

RolloutSeeds == Seeds \cup {5}

(* the values the source has yielded before the rollout *)
MaxDrawn == 5

possibleRollout(node) == Len(node.Board) = 3 \/ Len(node.Board) = 4

(* solver := NewMCCFR(seed); ...; solver.rollout(node): the payoff it     *)
(* returns, the cards it drew from and the board it evaluated             *)
DoRollout ==
    /\ input = NoInput
    /\ \E board \in RolloutBoards, combos \in RolloutCombos, seed \in RolloutSeeds,
          drawn \in 0 .. MaxDrawn :
          \E node \in {NewRolloutNode(10 * UnitsPerBB, board, TrainStacks, combos)} :
             /\ input' = [op |-> "rollout", node |-> node, seed |-> seed, drawn |-> drawn]
             /\ result' = [status |-> "rolled",
                           value |-> rollout(node, seed, drawn).value,
                           possibleCards |-> possibleCards(usedCardsOf(node)),
                           finalBoard |->
                               IF possibleRollout(node)
                               THEN finalBoard(node, possibleCards(usedCardsOf(node)), seed, drawn)
                               ELSE <<>>]
    /\ UNCHANGED host

LibNext ==
    \/ DoGetStrategy
    \/ DoGetAverageStrategy
    \/ DoGetInfoSet
    \/ DoGetInfoSetBucketed
    \/ DoCompare
    \/ DoParseRange
    \/ DoCalculateEquity
    \/ DoRollout
    \/ DoCheckStraight

LibSpec == LibInit /\ [][LibNext]_vars

-----------------------------------------------------------------------------
(* pkg/abstraction: the bucketer *)

(* CalculatePotential: zero off the flop; on the flop the variance of the  *)
(* turn equities over the first ten unused turn cards, over 0.25, at most  *)
(* one.                                                                    *)
MaxSamples == 10

Mean(xs) == FDiv(FSum(xs), Frac(Len(xs), 1))

Variance(xs) ==
    The({FDiv(FSum([i \in DOMAIN xs |-> FMul(FSub(xs[i], mean), FSub(xs[i], mean))]),
              Frac(Len(xs), 1)) : mean \in {Mean(xs)}})

Normalized(variance) ==
    The({IF FLess(One, v) THEN One ELSE IF FLess(v, Zero) THEN Zero ELSE v :
            v \in {FDiv(variance, Frac(1, 4))}})

CalculatePotential(hero, board, opponentRange) ==
    IF Len(board) # 3 THEN Zero
    ELSE LET usedCards == makeCardSet(hero \o board)
             unused == SelectSeq(EquityDeck, LAMBDA turn : turn \notin usedCards)
             turns == SubSeq(unused, 1, IF Len(unused) < MaxSamples THEN Len(unused)
                                        ELSE MaxSamples)
         IN  IF turns = <<>> THEN Zero
             ELSE The({Normalized(Variance(equities)) :
                         equities \in {[k \in DOMAIN turns |->
                             calculateTurnEquity(hero, board \o <<turns[k]>>,
                                                 opponentRange).Equity]}})

(* the bytes of the characters that card strings and range hashes hold *)
ByteOf(ch) ==
    IF ch = "," THEN 44
    ELSE IF ch \in DigitSet THEN 48 + (CHOOSE d \in 0 .. 9 : DigitChars[d + 1] = ch)
    ELSE IF ch = "A" THEN 65 ELSE IF ch = "J" THEN 74 ELSE IF ch = "K" THEN 75
    ELSE IF ch = "Q" THEN 81 ELSE IF ch = "T" THEN 84 ELSE IF ch = "c" THEN 99
    ELSE IF ch = "d" THEN 100 ELSE IF ch = "h" THEN 104 ELSE IF ch = "s" THEN 115
    ELSE 63

RECURSIVE TextLess(_, _)
TextLess(a, b) ==
    IF a = <<>> THEN b # <<>>
    ELSE IF b = <<>> THEN FALSE
    ELSE IF ByteOf(Head(a)) # ByteOf(Head(b)) THEN ByteOf(Head(a)) < ByteOf(Head(b))
    ELSE TextLess(Tail(a), Tail(b))

(* sort.Strings *)
RECURSIVE SortStrings(_)
SortStrings(texts) ==
    IF texts = {} THEN <<>>
    ELSE LET first == CHOOSE t \in texts : \A u \in texts \ {t} : TextLess(t, u)
         IN  <<first>> \o SortStrings(texts \ {first})

(* Combo.String *)
ComboString(c) == CardString(c.Card1) \o CardString(c.Card2)

hashRange(r) == Join(SortStrings({ComboString(r[i]) : i \in DOMAIN r}), ",")

(* hash = hash*31 + int64(b) wraps in 64 bits; the model keeps the low      *)
(* HashBits bits of it, which wrap the same way.                           *)
HashBits == 16
HashMod == 2 ^ HashBits

RECURSIVE HashBytes(_, _)
HashBytes(text, hash) ==
    IF text = <<>> THEN hash
    ELSE HashBytes(Tail(text), (hash * 31 + ByteOf(Head(text))) % HashMod)

deterministicSeed(hero, board, oppHash) ==
    HashBytes(CardsString(hero) \o CardsString(board) \o oppHash, 0)

remainingDeck(hero, board) ==
    SelectSeq(EquityDeck, LAMBDA card : card \notin makeCardSet(board \o hero))

Bucketer(board, opponentRange, numBuckets, useSampling, samples) ==
    [board |-> board, opponentRange |-> opponentRange, numBuckets |-> numBuckets,
     equityBins |-> CHOOSE g \in 0 .. numBuckets : g * g <= numBuckets
                                                   /\ (g + 1) * (g + 1) > numBuckets,
     potentialBins |-> CHOOSE g \in 0 .. numBuckets : g * g <= numBuckets
                                                      /\ (g + 1) * (g + 1) > numBuckets,
     oppHash |-> hashRange(opponentRange), useSampling |-> useSampling, samples |-> samples]

EqPot(equity, potential) == [equity |-> equity, potential |-> potential]

(* the board of one sample: draws are counted from the first of the call *)
sampleRunout(b, remaining, seed, s) ==
    IF Len(b.board) = 5 THEN b.board
    ELSE IF Len(b.board) = 4
    THEN b.board \o <<remaining[Intn(seed, s, Len(remaining)) + 1]>>
    ELSE LET turnIdx == Intn(seed, 2 * s - 1, Len(remaining)) + 1
             riverPool == SubSeq(remaining, 1, turnIdx - 1)
                             \o SubSeq(remaining, turnIdx + 1, Len(remaining))
         IN  b.board \o <<remaining[turnIdx], riverPool[Intn(seed, 2 * s, Len(riverPool)) + 1]>>

(* one sample: the equity against the combos that share no card with the  *)
(* hero or the sampled board, or no equity when every combo does           *)
NoSample == Frac(0 - 1, 1)

sampleEquity(b, hero, boardRunout) ==
    The({IF counts.total = 0 THEN NoSample
         ELSE FAdd(Frac(counts.wins, counts.total), Frac(counts.ties, 2 * counts.total)) :
            counts \in {Tally(<<showdowns(hero, boardRunout, b.opponentRange,
                                          makeCardSet(hero \o boardRunout))>>)}})

computeEquityPotential(b, hero) ==
    The({EqPot(e.Equity, CalculatePotential(hero, b.board, b.opponentRange)) :
            e \in {CalculateEquity(hero, b.board, b.opponentRange)}})

(* sampleEquityPotential past its cache *)
sampled(b, hero) ==
    LET seed == deterministicSeed(hero, b.board, b.oppHash)
        remaining == remainingDeck(hero, b.board)
        samples == IF b.samples <= 0 THEN 200 ELSE b.samples
    IN  IF Len(remaining) < 2 THEN computeEquityPotential(b, hero)
        ELSE The({IF eqSamples = <<>> THEN computeEquityPotential(b, hero)
                  ELSE EqPot(Mean(eqSamples), Normalized(Variance(eqSamples))) :
               eqSamples \in {SelectSeq([s \in 1 .. samples |->
                                  sampleEquity(b, hero, sampleRunout(b, remaining, seed, s))],
                              LAMBDA eq : eq # NoSample)}})

cacheKeyFirstCard(hero) == CardString(hero[1])

(* fmt.Sprintf("%s%s", hero[0].String(), hero[1].String()) *)
cacheKey(hero) == CardString(hero[1]) \o CardString(hero[2])

Floor(x) == x.num \div x.den

(* BucketHand past the cache: the values, the two bins clamped, the id *)
bucketID(b, eqPot) ==
    LET equityBin == Floor(FMul(eqPot.equity, Frac(b.equityBins, 1)))
        potentialBin == Floor(FMul(eqPot.potential, Frac(b.potentialBins, 1)))
    IN  (IF equityBin >= b.equityBins THEN b.equityBins - 1 ELSE equityBin) * b.potentialBins
        + (IF potentialBin >= b.potentialBins THEN b.potentialBins - 1 ELSE potentialBin)

MaxCalls == 3
BucketHeroes == {<<Kd, Kc>>, <<Kd, Ac>>, <<Qd, Qh>>}
Bucketers ==
    {Bucketer(RiverBoard, <<Combo(As, Ah), Combo(Ks, Qh)>>, 100, FALSE, 0),
     Bucketer(TurnBoard, <<Combo(As, Ah), Combo(c3h, c2s)>>, 100, FALSE, 0),
     Bucketer(TurnBoard, <<Combo(c3h, c2s)>>, 50, TRUE, 2),
     Bucketer(FlopBoard, <<Combo(As, Ah), Combo(Ks, Qh), Combo(c3h, c2s)>>, 100, TRUE, 3)}

(* The equity and the potential are functions of the bucketer and the      *)
(* hero: their values on the inputs are computed once.                     *)
EquityPotentials ==
    [b \in Bucketers |->
        [hero \in BucketHeroes |->
            IF b.useSampling THEN sampled(b, hero) ELSE computeEquityPotential(b, hero)]
        @@ <<>>] @@ <<>>

sampleEquityPotential(b, hero, eqCache) ==
    IF CardString(hero[1]) \o CardString(hero[2]) \in DOMAIN eqCache
    THEN eqCache[CardString(hero[1]) \o CardString(hero[2])]
    ELSE EquityPotentials[b][hero]

NoCache == <<>>

BucketInit == input = NoInput /\ result = NoResult /\ host = HostIdle

(* NewBucketer, NewBucketerSampled *)
DoNewBucketer ==
    /\ input = NoInput
    /\ \E b \in Bucketers :
          /\ input' = [op |-> "Bucketer", b |-> b]
          /\ result' = [status |-> "bucketer", cache |-> NoCache, eqCache |-> NoCache,
                        calls |-> <<>>]
    /\ UNCHANGED host

Bucketing == input # NoInput /\ input.op = "Bucketer"

(* calls lists the heroes asked for and the ids returned, in order *)
DoBucketHand ==
    /\ Bucketing
    /\ Len(result.calls) < MaxCalls
    /\ \E hero \in BucketHeroes :
          IF cacheKey(hero) \in DOMAIN result.cache
          THEN result' = [result EXCEPT
                            !.calls = Append(@, [hero |-> hero,
                                                 id |-> result.cache[cacheKey(hero)]])]
          ELSE \E eqPot \in {IF input.b.useSampling
                             THEN sampleEquityPotential(input.b, hero, result.eqCache)
                             ELSE EquityPotentials[input.b][hero]} :
                  \E id \in {bucketID(input.b, eqPot)} :
                     result' = [result EXCEPT
                                  !.cache = (cacheKey(hero) :> id) @@ @,
                                  !.eqCache = IF input.b.useSampling
                                              THEN (CardString(hero[1]) \o CardString(hero[2])
                                                       :> eqPot) @@ @
                                              ELSE @,
                                  !.calls = Append(@, [hero |-> hero, id |-> id])]
    /\ UNCHANGED <<input, host>>

DoClearCache ==
    /\ Bucketing
    /\ result.cache # NoCache \/ result.eqCache # NoCache
    /\ result' = [result EXCEPT !.cache = NoCache, !.eqCache = NoCache]
    /\ UNCHANGED <<input, host>>

BucketNext == DoNewBucketer \/ DoBucketHand \/ DoClearCache

BucketSpec == BucketInit /\ [][BucketNext]_vars

-----------------------------------------------------------------------------
(* Properties of the library functions *)

IsDistribution(strategy) ==
    /\ \A i \in DOMAIN strategy : FLeq(Zero, strategy[i])
    /\ FSum(strategy) = One

PositivePart(x) == IF FLess(Zero, x) THEN x ELSE Zero

(* C13: for an accumulated regret vector over at least one action the      *)
(* current strategy is non-negative and sums to 1; it is proportional to   *)
(* the positive parts of the regrets when some regret is positive, and     *)
(* exactly uniform when every regret is non-positive.                      *)
C13_RegretMatchingWellFormed ==
    input.op = "GetStrategy" =>
        LET regrets == input.s.RegretSum
            n == Len(input.s.Actions)
            total == FSum([i \in 1 .. n |-> PositivePart(regrets[i])])
        IN  /\ Len(result.strategy) = n
            /\ IsDistribution(result.strategy)
            /\ (\E i \in 1 .. n : FLess(Zero, regrets[i])) =>
                  \A i \in 1 .. n : FMul(result.strategy[i], total) = PositivePart(regrets[i])
            /\ (\A i \in 1 .. n : FLeq(regrets[i], Zero)) =>
                  \A i \in 1 .. n : result.strategy[i] = Frac(1, n)

(* the regrets of the package's test, 5 and -2: all weight on the first *)
C13_Witness ==
    /\ input.op = "GetStrategy"
    /\ input.s.RegretSum = <<Frac(5, 1), Frac(0 - 2, 1)>>
    /\ result.strategy = <<One, Zero>>

-----------------------------------------------------------------------------
(* Properties of the reported strategies *)

Profiles == {result.runs[r].profile : r \in 1 .. 2}

KeyCalled == input # NoInput /\ input.op \in {"GetInfoSet", "GetInfoSetBucketed"}

TokenLetter(a) ==
    IF a.Type = Check THEN "x" ELSE IF a.Type = Call THEN "c" ELSE IF a.Type = Fold THEN "f"
    ELSE IF a.Type = Bet THEN "b" ELSE "r"

(* A history field is, action by action, the letter of the action and,    *)
(* for a bet or a raise, digits, a point and exactly one digit.           *)
RECURSIVE IsHistoryField(_, _)
IsHistoryField(text, history) ==
    IF history = <<>> THEN text = <<>>
    ELSE /\ text # <<>>
         /\ text[1] = TokenLetter(Head(history))
         /\ IF Head(history).Type \in {Bet, Raise}
            THEN \E k \in 2 .. Len(text) - 2 :
                    /\ \A i \in 2 .. k : text[i] \in DigitSet
                    /\ text[k + 1] = "."
                    /\ text[k + 2] \in DigitSet
                    /\ IsHistoryField(SubSeq(text, k + 3, Len(text)), Tail(history))
            ELSE IsHistoryField(Tail(text), Tail(history))

Compared == input # NoInput /\ input.op = "Compare"

(* the categories from the weakest to the strongest *)
CategoryOrder == <<HighCard, OnePair, TwoPair, ThreeOfAKind, Straight, Flush, FullHouse,
                   FourOfAKind, StraightFlush>>

Strength(category) == CHOOSE i \in DOMAIN CategoryOrder : CategoryOrder[i] = category

(* C16: Compare is a total order on hand values: compare(a, b) is the     *)
(* negation of compare(b, a), a >= b and b >= c give a >= c (strictly if  *)
(* either is strict), and a hand of a higher category beats a hand of a   *)
(* lower one, StraightFlush > Quads > FullHouse > Flush > Straight >      *)
(* Trips > TwoPair > OnePair > HighCard.                                  *)
C16_CompareTotalOrder ==
    Compared =>
       /\ result.ab \in {-1, 0, 1}
       /\ result.ab = 0 - result.ba
       /\ (result.ab = 0) = (input.a = input.b)
       /\ (result.ab >= 0 /\ result.bc >= 0) => result.ac >= 0
       /\ (result.ab >= 0 /\ result.bc >= 0 /\ (result.ab = 1 \/ result.bc = 1)) => result.ac = 1
       /\ Strength(input.a.Rank) > Strength(input.b.Rank) => result.ab = 1

(* a flush over a straight over a pair whose kickers are higher than the  *)
(* flush's                                                                *)
C16_Witness ==
    /\ Compared
    /\ input.a = HandValue(Flush, Ace, King, Nine, Five, Two)
    /\ input.b = HandValue(Straight, Ace, 0, 0, 0, 0)
    /\ input.c = HandValue(OnePair, Ace, King, Queen, Jack, 0)
    /\ result.ab = 1 /\ result.bc = 1 /\ result.ac = 1 /\ result.ba = 0 - 1

RangeCalled == input # NoInput /\ input.op = "ParseRange"

IsPairTerm(t) == t # NoTerm /\ t.r1 = t.r2 /\ t.suffix = ""
IsSuitedTerm(t) == t # NoTerm /\ t.r1 # t.r2 /\ t.suffix = "s"
IsOffsuitTerm(t) == t # NoTerm /\ t.r1 # t.r2 /\ t.suffix = "o"

CombosIn(parsed) == {parsed.combos[i] : i \in DOMAIN parsed.combos}

(* the ranks from the first endpoint down to the second *)
RanksDown(from, to) == [k \in 1 .. (from - to + 1) |-> from - k + 1]

(* A dash range of the grammar: two pair terms, or two suited or two      *)
(* offsuit terms that share the first rank X, the second ranks running    *)
(* from Y down to Z without meeting X.                                    *)
IsPairRange(w) ==
    w.kind = "dash" /\ IsPairTerm(w.from) /\ IsPairTerm(w.to) /\ w.from.r1 >= w.to.r1
IsSuitedOrOffsuitRange(w) ==
    /\ w.kind = "dash"
    /\ \/ IsSuitedTerm(w.from) /\ IsSuitedTerm(w.to)
       \/ IsOffsuitTerm(w.from) /\ IsOffsuitTerm(w.to)
    /\ w.from.r1 = w.to.r1
    /\ w.from.r2 >= w.to.r2
    /\ w.from.r1 \notin w.to.r2 .. w.from.r2

TermsDown(w) ==
    LET ranks == RanksDown(w.from.r2, w.to.r2)
    IN  [k \in DOMAIN ranks |->
            IF IsPairTerm(w.from) THEN Term(ranks[k], ranks[k], "")
            ELSE Term(w.from.r1, ranks[k], w.from.suffix)]

(* C17: a pair term expands to 6 combos, a suited term to 4 combos of one *)
(* suit each, an offsuit term to 12 combos of two suits each; a dash      *)
(* range expands to the terms of every rank from its first endpoint down  *)
(* to its second, one after the other (KK-JJ to 18 combos, AKs-ATs to     *)
(* 16); every combo of every expansion has two distinct cards.            *)
C17_RangeExpansionCounts ==
    RangeCalled =>
       LET w == input.written
           t == w.from
           combos == CombosIn(result)
       IN  /\ \A c \in combos : c.Card1 # c.Card2
           /\ (w.kind = "term" /\ IsPairTerm(t)) =>
                 /\ result.err = "nil" /\ Len(result.combos) = 6 /\ Cardinality(combos) = 6
                 /\ \A c \in combos : c.Card1.Rank = t.r1 /\ c.Card2.Rank = t.r1
           /\ (w.kind = "term" /\ IsSuitedTerm(t)) =>
                 /\ result.err = "nil" /\ Len(result.combos) = 4 /\ Cardinality(combos) = 4
                 /\ \A c \in combos : /\ c.Card1.Rank = t.r1 /\ c.Card2.Rank = t.r2
                                      /\ c.Card1.Suit = c.Card2.Suit
           /\ (w.kind = "term" /\ IsOffsuitTerm(t)) =>
                 /\ result.err = "nil" /\ Len(result.combos) = 12 /\ Cardinality(combos) = 12
                 /\ \A c \in combos : /\ c.Card1.Rank = t.r1 /\ c.Card2.Rank = t.r2
                                      /\ c.Card1.Suit # c.Card2.Suit
           /\ (IsPairRange(w) \/ IsSuitedOrOffsuitRange(w)) =>
                 /\ result.err = "nil"
                 /\ result.combos =
                       Concat([k \in DOMAIN TermsDown(w) |->
                                  ParseRange(TermChars(TermsDown(w)[k])).combos])
                 /\ Cardinality(combos) = Len(result.combos)
           /\ input.rangeStr = <<"K", "K", "-", "J", "J">> => Len(result.combos) = 18
           /\ input.rangeStr = <<"A", "K", "s", "-", "A", "T", "s">> => Len(result.combos) = 16

(* AKs-ATs: AKs, AQs, AJs and ATs, four combos each *)
C17_Witness ==
    /\ RangeCalled
    /\ input.rangeStr = <<"A", "K", "s", "-", "A", "T", "s">>
    /\ result.err = "nil"
    /\ Len(result.combos) = 16
    /\ result.combos[1] = Combo(As, Ks)
    /\ result.combos[16] = Combo(Ac, NewCard(Ten, Clubs))

(* C18: ParseRange returns an error for a non-pair term without an s/o    *)
(* suffix, for a pair term with an s/o suffix, for a dash range whose     *)
(* endpoints differ in suitedness, and for a non-pair dash range whose    *)
(* endpoints differ in first rank.                                        *)
C18_ParseRangeErrors ==
    RangeCalled =>
       LET w == input.written
       IN  /\ (w.kind = "term" /\ w.from.r1 # w.from.r2 /\ w.from.suffix = "") =>
                 result.err # "nil"
           /\ (w.kind = "term" /\ w.from.r1 = w.from.r2 /\ w.from.suffix # "") =>
                 result.err # "nil"
           /\ (w.kind = "dash" /\ w.from.suffix \in {"s", "o"} /\ w.to.suffix \in {"s", "o"}
                 /\ w.from.suffix # w.to.suffix) => result.err # "nil"
           /\ (w.kind = "dash" /\ w.from.r1 # w.from.r2 /\ w.to.r1 # w.to.r2
                 /\ w.from.r1 # w.to.r1) => result.err # "nil"

EquityCalled == input # NoInput /\ input.op = "CalculateEquity"

(* the runouts of a board: the ways to complete it to five cards with     *)
(* cards that neither the hero nor the board holds                        *)
Runouts(hero, board) ==
    LET free == makeCardSet(EquityDeck) \ makeCardSet(hero \o board)
    IN  IF Len(board) = 5 THEN {<<>>}
        ELSE IF Len(board) = 4 THEN {<<c>> : c \in free}
        ELSE {<<c, d>> : c \in free, d \in free} \ {<<c, c>> : c \in free}

(* the pairs of a runout and an opponent combo that share no card with   *)
(* each other, the hero or the board                                      *)
CollisionFreePairs(hero, board, opponentRange) ==
    {p \in Runouts(hero, board) \X DOMAIN opponentRange :
        LET dead == makeCardSet(hero \o board \o p[1])
        IN  opponentRange[p[2]].Card1 \notin dead /\ opponentRange[p[2]].Card2 \notin dead}

PairCompare(hero, board, opponentRange, p) ==
    Compare(Evaluate(hero \o board \o p[1]),
            Evaluate(<<opponentRange[p[2]].Card1, opponentRange[p[2]].Card2>> \o board \o p[1]))

CollisionFreeCounts(hero, board, opponentRange) ==
    LET pairs == CollisionFreePairs(hero, board, opponentRange)
    IN  Counts(Cardinality({p \in pairs : PairCompare(hero, board, opponentRange, p) > 0}),
               Cardinality({p \in pairs : PairCompare(hero, board, opponentRange, p) = 0}),
               Cardinality(pairs))

(* C19: on every street the win, tie and total counts of an equity are    *)
(* the counts over the pairs of a runout and an opponent combo in which   *)
(* the combo shares no card with the hero's hole cards, the board or the  *)
(* runout.                                                                 *)
C19_EquityExcludesCollisions ==
    EquityCalled =>
       LET expected == CollisionFreeCounts(input.hero, input.board, input.opponentRange)
       IN  /\ result.total = expected.total
           /\ result.wins = expected.wins
           /\ result.ties = expected.ties

(* C20: on one bucketer, every call of BucketHand for a combo returns    *)
(* the id that every other call for that combo returns, whatever calls    *)
(* for other combos and whatever ClearCache calls come in between.        *)
C20_BucketIdStable ==
    Bucketing =>
       \A i, j \in DOMAIN result.calls :
          result.calls[i].hero = result.calls[j].hero => result.calls[i].id = result.calls[j].id

(* a call for KdKc, a call for another combo, ClearCache, KdKc again *)
C20_Witness ==
    /\ Bucketing
    /\ Len(result.calls) = 3
    /\ result.calls[1].hero = <<Kd, Kc>>
    /\ result.calls[2].hero # <<Kd, Kc>>
    /\ result.calls[3].hero = <<Kd, Kc>>
    /\ DOMAIN result.cache = {cacheKey(<<Kd, Kc>>)}
    /\ result.calls[1].id # result.calls[2].id

-----------------------------------------------------------------------------
(* Properties of the betting lines, the payoffs and the legal bets *)

(* the root-to-leaf paths of a tree: the keys walked and the node reached *)
RECURSIVE Paths(_)
Paths(n) ==
    IF DOMAIN n.Children = {} THEN {[keys |-> <<>>, leaf |-> n]}
    ELSE UNION {{[keys |-> <<k>> \o p.keys, leaf |-> p.leaf] : p \in Paths(n.Children[k])} :
                    k \in DOMAIN n.Children}

(* the per-street machine of the decision history, read on the letter of  *)
(* each key                                                                *)
StreetStep(state, key) ==
    IF state = "FreshStreet" /\ key[1] = "x" THEN "CheckedOnce"
    ELSE IF state \in {"FreshStreet", "CheckedOnce"} /\ key[1] = "b" THEN "BetOutstanding"
    ELSE IF state = "CheckedOnce" /\ key[1] = "x" THEN "ShowdownPending"
    ELSE IF state = "BetOutstanding" /\ key[1] = "c" THEN "ShowdownPending"
    ELSE IF state = "BetOutstanding" /\ key[1] = "f" THEN "Closed"
    ELSE "Invalid"

RECURSIVE StreetRun(_, _)
StreetRun(state, keys) ==
    IF keys = <<>> THEN state ELSE StreetRun(StreetStep(state, Head(keys)), Tail(keys))

BuiltFromEmptyHistory == BuildReturned /\ input.gs.ActionHistory = <<>>

(* C21: in a tree built from an empty history every root-to-leaf sequence *)
(* of actions is a run of the street machine that ends at a showdown or   *)
(* a fold, has at most three actions, and reaches a Terminal (or Rollout) *)
(* node.                                                                   *)
C21_PathsFollowStreetMachine ==
    BuiltFromEmptyHistory =>
        \A p \in Paths(result.root) :
            /\ StreetRun("FreshStreet", p.keys) \in {"ShowdownPending", "Closed"}
            /\ Len(p.keys) <= 3
            /\ p.leaf.IsTerminal

(* the letters of the whole betting line of a leaf: the history the build *)
(* started from, then the keys walked                                      *)
LineLetters(p) ==
    [i \in DOMAIN input.gs.ActionHistory |-> ActionString(input.gs.ActionHistory[i])[1]]
    \o [i \in DOMAIN p.keys |-> p.keys[i][1]]

(* the Terminal leaves that are showdowns: the line does not end in a fold *)
ShowdownLeaves ==
    {p \in Paths(result.root) :
        /\ p.leaf.IsTerminal
        /\ LineLetters(p) # <<>>
        /\ LineLetters(p)[Len(LineLetters(p))] # "f"}

BuiltOnRiver == BuildReturned /\ Len(input.gs.Board) = 5

ShowdownCompare ==
    Compare(EvaluateHand(<<input.combo0.Card1, input.combo0.Card2>> \o input.gs.Board),
            EvaluateHand(<<input.combo1.Card1, input.combo1.Card2>> \o input.gs.Board))

(* C22: on a 5-card board every showdown Terminal pays its whole pot to   *)
(* the player whose seven cards compare higher and nothing to the other,  *)
(* and pays each player half of its pot when the two hands compare equal. *)
C22_ShowdownPaysWinnerOrSplits ==
    BuiltOnRiver =>
        \E cmp \in {ShowdownCompare} :
            \A p \in ShowdownLeaves :
                /\ cmp > 0 => p.leaf.Payoff = <<p.leaf.Pot, 0>>
                /\ cmp < 0 => p.leaf.Payoff = <<0, p.leaf.Pot>>
                /\ cmp = 0 =>
                      /\ p.leaf.Payoff[1] = p.leaf.Payoff[2]
                      /\ 2 * p.leaf.Payoff[1] = p.leaf.Pot

(* QdQh against AdAc: a bet-call showdown whose pot goes to the second player *)
C22_Witness ==
    /\ BuiltOnRiver
    /\ ShowdownCompare < 0
    /\ \E p \in ShowdownLeaves :
          /\ Len(p.keys) >= 2
          /\ p.keys[Len(p.keys)][1] = "c"
          /\ p.leaf.Pot > 0
          /\ p.leaf.Payoff = <<0, p.leaf.Pot>>

Generated == input.op = "GenerateActions"

BetsOf(actions) == {i \in DOMAIN actions : actions[i].Type = Bet}

(* C23: every Bet in a generated action list, and every Bet listed at a   *)
(* Decision node of a built tree, is at most the acting player's stack    *)
(* and at least 0.01 bb.                                                   *)
C23_BetWithinStackAndFloor ==
    /\ Generated =>
          \A i \in BetsOf(result.actions) :
              /\ result.actions[i].Amount <= input.stack
              /\ result.actions[i].Amount >= Cent
    /\ BuildReturned =>
          \A d \in Nodes(result.root) :
              IsDecision(d) =>
                  \A i \in BetsOf(d.Actions) :
                      /\ d.Actions[i].Amount <= d.Stacks[d.Player + 1]
                      /\ d.Actions[i].Amount >= Cent

(* a 0.01 bb stack in a 10 bb pot: the bets are cut down to the stack,    *)
(* which is the floor itself                                               *)
C23_Witness ==
    /\ Generated
    /\ input.stack = Cent
    /\ input.pot = 10 * UnitsPerBB
    /\ \E i \in BetsOf(result.actions) : result.actions[i].Amount = Cent

GeneratedOpening == Generated /\ ~FacingBet(input.lastAction)

AllInsOf(actions, stack) == {i \in BetsOf(actions) : actions[i].Amount = stack}

(* the bet sizes as computed from the pot, cut down to the stack *)
ComputedBets(pot, stack, betSizes) ==
    {IF (pot * betSizes[i]) \div 4 >= stack THEN stack ELSE (pot * betSizes[i]) \div 4 :
        i \in DOMAIN betSizes}

(* C24: with no bet outstanding, a stack above 0.01 bb and no computed    *)
(* bet equal to the stack, the list contains Bet(stack); and no list      *)
(* contains Bet(stack) more than once.                                     *)
C24_AllInOfferedOnce ==
    GeneratedOpening =>
        /\ (input.stack > Cent
            /\ input.stack \notin ComputedBets(input.pot, input.stack, input.config.BetSizes))
           => AllInsOf(result.actions, input.stack) # {}
        /\ Cardinality(AllInsOf(result.actions, input.stack)) <= 1

(* the action a child was built from: the last listed action with its key *)
ActionOfKey(n, k) ==
    n.Actions[CHOOSE i \in DOMAIN n.Actions :
                 /\ ActionKey(n.Actions[i]) = k
                 /\ \A j \in DOMAIN n.Actions : ActionKey(n.Actions[j]) = k => j <= i]

(* the nodes of a tree, each with the action history that leads to it *)
RECURSIVE Visits(_, _)
Visits(n, history) ==
    {[node |-> n, history |-> history]}
    \cup UNION {Visits(n.Children[k], Append(history, ActionOfKey(n, k))) :
                    k \in DOMAIN n.Children}

(* the Decision nodes at which a Call was built *)
CallVisits ==
    {v \in Visits(result.root, input.gs.ActionHistory) :
        IsDecision(v.node) /\ CallKey \in DOMAIN v.node.Children}

(* the amount of the most recent Bet or Raise of a history, 0 without one *)
LastBetAmount(history) ==
    LET bets == {i \in DOMAIN history : history[i].Type \in {Bet, Raise}}
    IN  IF bets = {} THEN 0
        ELSE history[CHOOSE i \in bets : \A j \in bets : j <= i].Amount

Capped(amount, stack) == IF amount > stack THEN stack ELSE amount

(* C25: at every Decision node with a Call, the child reached by the Call *)
(* has the caller's stack lowered and the pot raised by the amount of the *)
(* most recent Bet or Raise of the history, or by the caller's whole      *)
(* stack when that is less; the other stack is untouched.                  *)
C25_CallMovesCappedBet ==
    BuildReturned =>
        \A v \in CallVisits :
            LET caller == v.node.Player + 1
                child == v.node.Children[CallKey]
                moved == Capped(LastBetAmount(v.history), v.node.Stacks[caller])
            IN  /\ child.Pot = v.node.Pot + moved
                /\ child.Stacks[caller] = v.node.Stacks[caller] - moved
                /\ child.Stacks[3 - caller] = v.node.Stacks[3 - caller]

(* a 4 bb stack calling a larger bet: the call moves the 4 bb and leaves  *)
(* the caller with nothing                                                 *)
C25_Witness ==
    /\ BuildReturned
    /\ \E v \in CallVisits :
          LET caller == v.node.Player + 1
              child == v.node.Children[CallKey]
          IN  /\ v.node.Stacks[caller] = 4 * UnitsPerBB
              /\ LastBetAmount(v.history) > 4 * UnitsPerBB
              /\ child.Pot = v.node.Pot + 4 * UnitsPerBB
              /\ child.Stacks[caller] = 0

-----------------------------------------------------------------------------
(* Properties of the traversals *)

(* the strategy regret matching gives at a node under a profile *)
CurrentStrategy(n, profile) ==
    GetStrategy(GetOrCreate(profile, n.InfoSet, n.Actions)[n.InfoSet])

ChildOf(n, i) == n.Children[ActionKey(n.Actions[i])]

(* the value of a node of a tree of Decision and Terminal nodes when both *)
(* players follow the current strategy of a profile: V = sum of sigma[a]  *)
(* times Q[a]                                                              *)
RECURSIVE NodeValue(_, _)
NodeValue(n, profile) ==
    IF n.IsTerminal THEN Payoffs(n.Payoff)
    ELSE LET sigma == CurrentStrategy(n, profile)
             Q == [i \in DOMAIN n.Actions |-> NodeValue(ChildOf(n, i), profile)]
         IN  <<FSum([i \in DOMAIN n.Actions |-> FMul(sigma[i], Q[i][1])]),
               FSum([i \in DOMAIN n.Actions |-> FMul(sigma[i], Q[i][2])])>>

(* the nodes of such a tree with the probability that each player plays   *)
(* to them under the current strategy of a profile                         *)
RECURSIVE Reached(_, _, _, _)
Reached(n, reach0, reach1, profile) ==
    {[node |-> n, reach0 |-> reach0, reach1 |-> reach1]}
    \cup (IF n.IsTerminal THEN {}
          ELSE UNION {Reached(ChildOf(n, i),
                              IF n.Player = 0
                              THEN FMul(reach0, CurrentStrategy(n, profile)[i]) ELSE reach0,
                              IF n.Player = 0 THEN reach1
                              ELSE FMul(reach1, CurrentStrategy(n, profile)[i]),
                              profile) : i \in DOMAIN n.Actions})

RegretBefore(profile, n, i) ==
    IF n.InfoSet \in DOMAIN profile THEN profile[n.InfoSet].RegretSum[i] ELSE Zero

(* a single matchup: every info set belongs to one node, visited once in  *)
(* an iteration                                                            *)
CFROnMatchup == Training /\ input.solver = "CFR" /\ ~input.root.IsChance

Iterated(r) == result'.runs[r].done = result.runs[r].done + 1

CFRRegretStep ==
    \A r \in 1 .. 2 :
        (CFROnMatchup /\ Iterated(r)) =>
            \A v \in Reached(input.root, One, One, result.runs[r].profile) :
                IsDecision(v.node) =>
                    LET n == v.node
                        p == n.Player + 1
                        V == NodeValue(n, result.runs[r].profile)
                        opponentReach == IF n.Player = 0 THEN v.reach1 ELSE v.reach0
                    IN  \A i \in DOMAIN n.Actions :
                           result'.runs[r].profile[n.InfoSet].RegretSum[i]
                             = FAdd(RegretBefore(result.runs[r].profile, n, i),
                                    FMul(opponentReach,
                                         FSub(NodeValue(ChildOf(n, i),
                                                        result.runs[r].profile)[p],
                                              V[p])))

(* C26: an iteration of vanilla CFR raises regretSum[a] at every Decision *)
(* node of player p, for every action a, by the opponent's reach          *)
(* probability times (Q[a][p] - V[p]), where Q[a] is the value of the     *)
(* child under a and V the sum of sigma[a] Q[a] under the current         *)
(* strategy sigma.                                                         *)
C26_CFRRegretUpdate == [][CFRRegretStep]_vars

(* two iterations on a single matchup: the second one runs on a strategy  *)
(* that is no longer uniform                                               *)
C26_Witness ==
    /\ CFROnMatchup
    /\ result.runs[1].done = 2
    /\ \E n \in Nodes(input.root) :
          /\ IsDecision(n)
          /\ n.Player = 1
          /\ \E i \in DOMAIN n.Actions :
                FLess(Zero, result.runs[1].profile[n.InfoSet].RegretSum[i])

(* the Decision nodes one outcome-sampling traversal of a tree of         *)
(* Decision and Terminal nodes visits, each with the index of the action  *)
(* sampled at it and the sampling probability handed down to it           *)
RECURSIVE SampledVisits(_, _, _, _, _)
SampledVisits(n, sampleProb, profile, seed, drawn) ==
    IF n.IsTerminal THEN {}
    ELSE LET sigma == CurrentStrategy(n, profile)
             sampledIdx == sampleAction(sigma, Float64(seed, drawn + 1))
         IN  {[node |-> n, sampled |-> sampledIdx, sampleProb |-> sampleProb]}
             \cup SampledVisits(ChildOf(n, sampledIdx), FMul(sampleProb, sigma[sampledIdx]),
                                profile, seed, drawn + 1)

MCCFROnMatchup ==
    /\ Training
    /\ input.solver = "MCCFR"
    /\ ~input.root.IsChance
    /\ Len(input.root.Board) = 5

MCCFRRegretStep ==
    \A r \in 1 .. 2 :
        (MCCFROnMatchup /\ Iterated(r)) =>
            \A v \in SampledVisits(input.root, One, result.runs[r].profile, input.seed,
                                   result.runs[r].drawn) :
                LET n == v.node
                    p == n.Player + 1
                    Q == NodeValue(ChildOf(n, v.sampled), result.runs[r].profile)
                    V == NodeValue(n, result.runs[r].profile)
                IN  \A i \in DOMAIN n.Actions :
                       result'.runs[r].profile[n.InfoSet].RegretSum[i]
                         = FAdd(RegretBefore(result.runs[r].profile, n, i),
                                IF i = v.sampled
                                THEN FDiv(FSub(Q[p], V[p]), v.sampleProb)
                                ELSE Zero)

(* C27: at every Decision node an MCCFR iteration visits, the regret sum  *)
(* of the sampled action grows by (Q[a*][p] - V[p]) / sampleProb, Q and   *)
(* V being the values of vanilla CFR under the current strategy, and the  *)
(* regret sum of every other action stays as it was.                       *)
C27_MCCFRRegretUpdate == [][MCCFRRegretStep]_vars

CFROnRollout == Training /\ input.solver = "CFR" /\ input.root.NeedsRollout

PotInBB(node) == Frac(node.Pot, UnitsPerBB)

(* the payoff vectors a rollout of a node can realise *)
RolloutPayoffs(node) ==
    {<<PotInBB(node), Zero>>, <<Zero, PotInBB(node)>>,
     <<Frac(node.Pot, 2 * UnitsPerBB), Frac(node.Pot, 2 * UnitsPerBB)>>}

(* C28: a vanilla CFR traversal that reaches a Rollout node returns a     *)
(* payoff realised by a rollout, which sums to the pot of the node,       *)
(* not the payoff stored in the node.                                      *)
C28_CFRSamplesRollout ==
    CFROnRollout =>
        \A r \in 1 .. 2 :
            result.runs[r].done > 0 =>
                /\ result.runs[r].value \in RolloutPayoffs(input.root)
                /\ FAdd(result.runs[r].value[1], result.runs[r].value[2]) = PotInBB(input.root)

Rolled == input.op = "rollout"

Deck == {NewCard(rank, suit) : rank \in Two .. Ace, suit \in {Spades, Hearts, Diamonds, Clubs}}

CardSet(cs) == {cs[i] : i \in DOMAIN cs}

Distinct(cs) == \A i, j \in DOMAIN cs : i # j => cs[i] # cs[j]

NodeUsed(node) ==
    CardSet(node.Board)
    \cup UNION {{node.PlayerCombos[p].Card1, node.PlayerCombos[p].Card2} : p \in 1 .. 2}

RolledHand(p) ==
    <<input.node.PlayerCombos[p].Card1, input.node.PlayerCombos[p].Card2>> \o result.finalBoard

(* C29: a rollout on a flop or a turn draws from exactly the cards of the *)
(* deck that are neither on the board nor in a combo, each listed once    *)
(* (44 of them on a turn, 45 on a flop); the board it evaluates is the    *)
(* partial board followed by drawn cards, five cards in all, no drawn     *)
(* card twice; and the seven cards of each hand are pairwise distinct.    *)
C29_RolloutDrawsUnusedCards ==
    (Rolled /\ possibleRollout(input.node)) =>
        /\ CardSet(result.possibleCards) = Deck \ NodeUsed(input.node)
        /\ Distinct(result.possibleCards)
        /\ Len(input.node.Board) = 4 => Len(result.possibleCards) = 44
        /\ Len(input.node.Board) = 3 => Len(result.possibleCards) = 45
        /\ Len(result.finalBoard) = 5
        /\ SubSeq(result.finalBoard, 1, Len(input.node.Board)) = input.node.Board
        /\ \A i \in Len(input.node.Board) + 1 .. 5 :
              result.finalBoard[i] \in CardSet(result.possibleCards)
        /\ Distinct(RolledHand(1))
        /\ Distinct(RolledHand(2))

(* a flop rollout whose source yields the same value twice: the turn and  *)
(* the river are still two cards                                           *)
C29_Witness ==
    /\ Rolled
    /\ Len(input.node.Board) = 3
    /\ DrawOf(input.seed, input.drawn + 1) = DrawOf(input.seed, input.drawn + 2)
    /\ Len(result.finalBoard) = 5
    /\ result.finalBoard[4] # result.finalBoard[5]

HalfPot(node) == <<Frac(node.Pot, 2 * UnitsPerBB), Frac(node.Pot, 2 * UnitsPerBB)>>

(* C30: a rollout that cannot be made (fewer than two cards left, or a    *)
(* board that is neither a flop nor a turn) returns half of the pot of    *)
(* the node to each player.                                                *)
C30_RolloutErrorSplitsPot ==
    (Rolled /\ (~possibleRollout(input.node) \/ Len(result.possibleCards) < 2)) =>
        result.value = HalfPot(input.node)

-----------------------------------------------------------------------------
(* Properties of the solvers across iterations *)

CFRTraining == Training /\ input.solver = "CFR"

(* C31: two vanilla CFR solvers that have run the same number of          *)
(* iterations on the same tree, a tree with a Chance root included, hold  *)
(* the same profile.                                                       *)
C31_CFRProfileSameOnEveryRun ==
    (CFRTraining /\ result.runs[1].done = result.runs[2].done)
    => result.runs[1].profile = result.runs[2].profile

Returned(h) == h.pc \in {"cancelled", "timedout", "completed"}

(* C32: an iteration that has started completes, whatever cancel request  *)
(* is pending; the loop returns only from its poll (cancellation, end of  *)
(* the loop) or from its deadline test after an iteration, with the       *)
(* profile of the iterations completed; and the count of completed        *)
(* iterations never goes down during a solve.                              *)
C32_StopsOnlyAtIterationBoundaries ==
    [][/\ host.pc = "iterate" => (host'.pc = "iterate" \/ host'.done = host.done + 1)
       /\ (InLoop(host) /\ Returned(host')) =>
             /\ host.pc \in {"poll", "deadline"}
             /\ host'.returned = host.done
             /\ host'.done = host.done
       /\ (InLoop(host) /\ InLoop(host')) => host'.done >= host.done]_vars

(* the deadline passes while a cancel request is pending: the solve       *)
(* returns the profile of the iterations it completed                      *)
C32_Witness ==
    /\ host.pc = "timedout"
    /\ host.cancelSolve = 1
    /\ host.done >= 1
    /\ host.done < host.iterations
    /\ host.returned = host.done

(* C37: a solve starts with an empty cancel channel of its own, whatever  *)
(* token the channel of an earlier solve still holds; a token enters the  *)
(* channel of a running solve only by a cancel request made during it,    *)
(* and the solve returns as cancelled only on such a token.                *)
C37_CancelAtRestIsForgotten ==
    [][/\ (AtRest /\ InLoop(host')) => host'.cancelSolve = 0
       /\ (InLoop(host) /\ host.cancelSolve = 0 /\ host'.cancelSolve = 1) => Cancel
       /\ host'.pc = "cancelled" =>
             (host.pc = "cancelled" \/ (InLoop(host) /\ host.cancelSolve = 1))]_vars

(* a solve started while a token of an earlier cancel request was pending *)
(* has run all its iterations                                              *)
C37_Witness ==
    /\ host.pc = "completed"
    /\ host.stale
    /\ host.iterations >= 2
    /\ host.done = host.iterations
    /\ host.cancelSolve = 0

(* an Iterate call of solver r leaves the tree and the other solver as    *)
(* they were                                                               *)
IterateFrame(r) ==
    /\ input' = input
    /\ result'.runs[3 - r] = result.runs[3 - r]

(* C33 as stated: an iteration changes the profile of its solver and      *)
(* nothing else that a later iteration reads: not the tree, not the other *)
(* solver, not the position of the random source.                          *)
C33_ProfileSoleMutableState ==
    [][\A r \in 1 .. 2 :
          (Training /\ Iterated(r)) =>
              /\ IterateFrame(r)
              /\ result'.runs[r].drawn = result.runs[r].drawn]_vars

(* C33 amended: an iteration changes the profile of its solver and, in    *)
(* MCCFR, the position of that solver's random source, which only moves   *)
(* forward; it changes neither the tree nor anything of the other solver, *)
(* and vanilla CFR touches no random source.                               *)
C33_ProfileAndSourceOnlyMutableState ==
    [][\A r \in 1 .. 2 :
          (Training /\ Iterated(r)) =>
              /\ IterateFrame(r)
              /\ result'.runs[r].drawn >= result.runs[r].drawn
              /\ input.solver = "CFR" => result'.runs[r].drawn = result.runs[r].drawn]_vars

(* one MCCFR solver has iterated twice and drawn from its source, the     *)
(* other still holds an empty profile and an untouched source              *)
C33_Witness ==
    /\ Training
    /\ input.solver = "MCCFR"
    /\ result.runs[1].done = 2
    /\ result.runs[1].drawn >= 2
    /\ DOMAIN result.runs[1].profile # {}
    /\ result.runs[2] = NewRun

(* C34: every Strategy of every profile, after any number of iterations   *)
(* of either solver, has one regret sum and one strategy sum per action   *)
(* of its list.                                                            *)
C34_AccumulatorsMatchActions ==
    Training =>
        \A profile \in {result.runs[r].profile : r \in 1 .. 2} :
            \A k \in DOMAIN profile :
                /\ Len(profile[k].RegretSum) = Len(profile[k].Actions)
                /\ Len(profile[k].StrategySum) = Len(profile[k].Actions)

(* two iterations have left strategies over action lists of two lengths *)
C34_Witness ==
    /\ Training
    /\ result.runs[1].done = 2
    /\ \E k1, k2 \in DOMAIN result.runs[1].profile :
          /\ Len(result.runs[1].profile[k1].Actions) = 2
          /\ Len(result.runs[1].profile[k2].Actions) >= 3
          /\ Len(result.runs[1].profile[k1].RegretSum) = 2
          /\ Len(result.runs[1].profile[k2].StrategySum) >= 3

-----------------------------------------------------------------------------
(* Properties of the straight check *)

CheckedStraight == input # NoInput /\ input.op = "checkStraight"

RanksOf(ranks) == {ranks[i] : i \in DOMAIN ranks}

Wheel == {Ace, Five, Four, Three, Two}

(* five different ranks in a row, the ace above the king only *)
Run5(rs, high) == Cardinality(rs) = 5 /\ rs = (high - 4) .. high

(* C35: A-5-4-3-2 is a straight whose high card is Five and not Ace, so   *)
(* as a hand it compares below the 6-high straight; every other straight  *)
(* is five ranks in a row with the ace, if present, on top (T-J-Q-K-A),   *)
(* its high card is its highest rank, and no list that wraps around the   *)
(* ace or holds a pair is a straight.                                      *)
C35_WheelIsFiveHigh ==
    CheckedStraight =>
        LET rs == RanksOf(input.ranks)
        IN  IF rs = Wheel
            THEN /\ result.ok
                 /\ result.high = Five
                 /\ result.value = HandValue(Straight, Five, 0, 0, 0, 0)
                 /\ Compare(result.value,
                            evaluate5Cards(OffSuit(<<Six, Five, Four, Three, Two>>))) < 0
            ELSE /\ result.ok <=> \E high \in Six .. Ace : Run5(rs, high)
                 /\ result.ok =>
                       /\ Run5(rs, result.high)
                       /\ result.value = HandValue(Straight, result.high, 0, 0, 0, 0)
                       /\ Ace \in rs => result.high = Ace
                 /\ ~result.ok => result.high = 0 /\ result.value.Rank # Straight

C35_Witness ==
    /\ CheckedStraight
    /\ RanksOf(input.ranks) = Wheel
    /\ result.ok
    /\ result.high = Five

-----------------------------------------------------------------------------
(* Properties of the MCCFR regrets *)

MCCFRTraining == Training /\ input.solver = "MCCFR"

-----------------------------------------------------------------------------
(* Properties of the info-set keys *)

DecisionNodes(root) == {n \in Nodes(root) : IsDecision(n)}

(* C38: in every tree the builder returns, two Decision nodes with the    *)
(* same info-set key have the same action list: the same length and, in   *)
(* order, the same types and amounts.                                      *)
C38_SameKeySameActions ==
    TreeReturned =>
        \A n1, n2 \in DecisionNodes(result.root) :
            InfoSetString(n1.InfoSet) = InfoSetString(n2.InfoSet) => n1.Actions = n2.Actions

(* a range tree in which a player's key is shared by two different nodes  *)
C38_Witness ==
    /\ TreeReturned
    /\ \E n1, n2 \in DecisionNodes(result.root) :
          /\ n1 # n2
          /\ n1.InfoSet = n2.InfoSet
          /\ Len(n1.Actions) >= 3
          /\ n1.Actions = n2.Actions

RangeReturned == input.op = "BuildRange" /\ result.status = "ok"

(* two subtrees have the same shape, and wherever the player decides the  *)
(* same key                                                                *)
RECURSIVE SameKeysFor(_, _, _)
SameKeysFor(player, n1, n2) ==
    /\ IsDecision(n1) <=> IsDecision(n2)
    /\ IsDecision(n1) => /\ n1.Player = n2.Player
                         /\ n1.Player = player => n1.InfoSet = n2.InfoSet
    /\ DOMAIN n1.Children = DOMAIN n2.Children
    /\ \A k \in DOMAIN n1.Children : SameKeysFor(player, n1.Children[k], n2.Children[k])

(* C39: the key of a Decision node is made of the board, the history, the *)
(* acting player and that player's own hole cards only: two matchups of a *)
(* range tree that differ only in the combo of one player give the other  *)
(* player the same key at every one of that player's decisions, and every *)
(* key holds the hole cards of the player who acts and no other.           *)
C39_KeysIgnoreOpponentCombo ==
    RangeReturned =>
        /\ \A p, q \in DOMAIN result.root.Children :
              \A player \in 0 .. 1 :
                 p[player + 1] = q[player + 1] =>
                     SameKeysFor(player, result.root.Children[p], result.root.Children[q])
        /\ \A p \in DOMAIN result.root.Children :
              \A n \in DecisionNodes(result.root.Children[p]) :
                 /\ n.InfoSet[1] = input.gs.Board
                 /\ n.InfoSet[3] = <<BTN, BB>>[n.Player + 1]
                 /\ n.InfoSet[4] = <<p[n.Player + 1].Card1, p[n.Player + 1].Card2>>

(* two matchups with the same combo for the player who decides and        *)
(* different combos for the opponent                                       *)
C39_Witness ==
    /\ RangeReturned
    /\ \E p, q \in DOMAIN result.root.Children :
          /\ p[1] = q[1]
          /\ p[2] # q[2]
          /\ \E n \in DecisionNodes(result.root.Children[p]) :
                /\ n.Player = 0
                /\ Len(n.InfoSet[2]) >= 1
                /\ \E n2 \in DecisionNodes(result.root.Children[q]) : n2.InfoSet = n.InfoSet

-----------------------------------------------------------------------------
(* Properties of the stacks *)

RootStacksNonNegative == \A i \in DOMAIN input.gs.Players : input.gs.Players[i].Stack >= 0

(* C40: when both stacks are non-negative at the root, both stacks are    *)
(* non-negative at every node of the built tree, and an action changes    *)
(* the stack of the player who acts only: no bet and no call takes more   *)
(* chips than the acting player has.                                       *)
C40_StacksStayNonNegative ==
    (TreeReturned /\ RootStacksNonNegative) =>
        /\ \A n \in Nodes(result.root) : n.Stacks[1] >= 0 /\ n.Stacks[2] >= 0
        /\ \A d \in DecisionNodes(result.root) :
              \A k \in DOMAIN d.Children :
                 /\ d.Children[k].Stacks[(1 - d.Player) + 1] = d.Stacks[(1 - d.Player) + 1]
                 /\ d.Stacks[d.Player + 1] - d.Children[k].Stacks[d.Player + 1]
                       <= d.Stacks[d.Player + 1]

(* a tree with a call of a bet larger than the caller's stack and a tree  *)
(* with an all-in bet                                                      *)
C40_Witness ==
    /\ BuildReturned
    /\ RootStacksNonNegative
    /\ \E d \in DecisionNodes(result.root) :
          \/ /\ CallKey \in DOMAIN d.Children
             /\ d.Stacks[d.Player + 1] > 0
             /\ LastBetAmount(input.gs.ActionHistory) > d.Stacks[d.Player + 1]
             /\ d.Children[CallKey].Stacks[d.Player + 1] = 0
          \/ /\ \E i \in DOMAIN d.Actions :
                   /\ d.Actions[i].Type = Bet
                   /\ d.Actions[i].Amount = d.Stacks[d.Player + 1]
                   /\ ChildOf(d, i).Stacks[d.Player + 1] = 0
             /\ d.Stacks[d.Player + 1] > 0

====
